---------------------------- MODULE Spec2Model ----------------------------
\* Model of core/contentful_service.py: the Content Resolver (the fetch
\* operations), the Entry Parser (the parse operations, get_asset_url,
\* parse_rich_text) and the Sync Publisher (sync_property_to_contentful and
\* its helpers), running against a remote content store that may fail at
\* any call; of the post_property view of core/views.py, which submits
\* a listing through that module; and of Property.save of core/models.py,
\* which names a listing.
\*
\* Python values are tagged records [t |-> type, v |-> payload].  A string
\* is a sequence of symbols, so that concatenation, splitting and prefix
\* tests are computed and not assumed.  A missing attribute or dictionary
\* key is the payload Absent.  An exception that leaves an expression is
\* the value Raise, which the enclosing try/except turns into the
\* handler's return value.
EXTENDS Integers, Sequences, FiniteSets, TLC

VARIABLES
    cfg,      \* module-level credentials read from the environment at import
    remote,   \* entries held by the remote content store, oldest first
    assets,   \* assets held by the remote content store, oldest first
    op,       \* the operation that ran last, with its inputs
    result,   \* what that operation returned to its caller
    calls,    \* the remote calls that operation issued, in order
    served    \* how many operations have run so far

vars == <<cfg, remote, assets, op, result, calls, served>>

\* the number of operations one behaviour runs
MaxOps == 1

---------------------------------------------------------------------------
\* Python values

None == [t |-> "None"]
Absent == [t |-> "absent"]
Raise == [t |-> "raise"]
Str(s) == [t |-> "str", v |-> s]
Num(n) == [t |-> "int", v |-> n]
Date(d) == [t |-> "date", v |-> d]
List(s) == [t |-> "list", v |-> s]
Dict(d) == [t |-> "dict", v |-> d]
Obj(o) == [t |-> "obj", v |-> o]
EmptyStr == Str(<< >>)

\* bool(x)
Truthy(x) ==
    CASE x.t = "None" -> FALSE
      [] x.t = "absent" -> FALSE
      [] x.t = "str" -> Len(x.v) > 0
      [] x.t = "int" -> x.v # 0
      [] x.t = "list" -> Len(x.v) > 0
      [] x.t = "dict" -> \E k \in DOMAIN x.v : x.v[k] # Absent
      [] OTHER -> TRUE

\* hasattr(x, a)
HasAttr(x, a) == x.t = "obj" /\ a \in DOMAIN x.v /\ x.v[a] # Absent

\* getattr(x, a, default)
GetAttr(x, a, default) == IF HasAttr(x, a) THEN x.v[a] ELSE default

\* x.a : AttributeError when x has no attribute a
Attr(x, a) == IF HasAttr(x, a) THEN x.v[a] ELSE Raise

\* k in d
HasKey(d, k) == d.t = "dict" /\ k \in DOMAIN d.v /\ d.v[k] # Absent

\* d.get(k, default) : AttributeError when d is not a mapping
DictGet(d, k, default) ==
    IF d.t # "dict" THEN Raise
    ELSE IF HasKey(d, k) THEN d.v[k] ELSE default

\* s.startswith(prefix), prefix one symbol
StartsWith(s, prefix) == Len(s.v) > 0 /\ s.v[1] = prefix

\* str(x)
PyStr(x) ==
    CASE x.t = "str" -> x
      [] x.t = "int" -> Str(<<ToString(x.v)>>)
      [] x.t = "date" -> Str(<<"day", ToString(x.v)>>)
      [] x.t = "None" -> Str(<<"None">>)
      [] OTHER -> Str(<<"<", x.t, ">">>)

---------------------------------------------------------------------------
\* Parsing helpers

\* file_info.get('url', '') and the protocol-relative prefix rule
AbsoluteUrl(url) ==
    IF url.t # "str" THEN Raise
    ELSE IF StartsWith(url, "//") THEN Str(<<"https:">> \o url.v) ELSE url

get_asset_url_body(asset) ==
    IF HasAttr(asset, "url")
    THEN AbsoluteUrl(asset.v.url)
    ELSE IF HasAttr(asset, "fields") /\ HasKey(asset.v.fields, "file")
    THEN LET url == DictGet(asset.v.fields.v.file, "url", EmptyStr)
         IN  IF url = Raise THEN Raise ELSE AbsoluteUrl(url)
    ELSE None

get_asset_url(asset) ==
    IF ~Truthy(asset) THEN None
    ELSE LET r == get_asset_url_body(asset)
         IN  IF r = Raise THEN None ELSE r

RECURSIVE JoinLines(_)
\* '\n'.join(parts) : TypeError when a part is not a string
JoinLines(parts) ==
    IF Len(parts) = 0 THEN EmptyStr
    ELSE IF parts[1].t # "str" THEN Raise
    ELSE IF Len(parts) = 1 THEN parts[1]
    ELSE LET rest == JoinLines(Tail(parts))
         IN  IF rest = Raise THEN Raise
             ELSE Str(parts[1].v \o <<"\n">> \o rest.v)

RECURSIVE KeySeq(_)
\* the keys of a set, as strings, in some order
KeySeq(keys) ==
    IF keys = {} THEN << >>
    ELSE LET k == CHOOSE x \in keys : TRUE
         IN  <<Str(<<k>>)>> \o KeySeq(keys \ {k})

\* iter(x): the elements a for loop over x visits; TypeError when x is
\* not iterable
Iter(x) ==
    CASE x.t = "list" -> x
      [] x.t = "str" -> List([i \in 1..Len(x.v) |-> Str(<<x.v[i]>>)])
      [] x.t = "dict" -> List(KeySeq({k \in DOMAIN x.v : x.v[k] # Absent}))
      [] OTHER -> Raise

RECURSIVE DictChildTexts(_)
\* the inner loop over a dict paragraph's children
DictChildTexts(children) ==
    IF Len(children) = 0 THEN List(<< >>)
    ELSE LET child == children[1]
             nt == DictGet(child, "nodeType", None)
         IN  IF nt = Raise THEN Raise
             ELSE LET rest == DictChildTexts(Tail(children))
                  IN  IF rest = Raise THEN Raise
                      ELSE IF nt = Str(<<"text">>)
                      THEN List(<<DictGet(child, "value", EmptyStr)>> \o rest.v)
                      ELSE rest

RECURSIVE ObjChildTexts(_)
\* the inner loop over an object node's children
ObjChildTexts(children) ==
    IF Len(children) = 0 THEN List(<< >>)
    ELSE LET child == children[1]
             rest == ObjChildTexts(Tail(children))
         IN  IF rest = Raise THEN Raise
             ELSE IF HasAttr(child, "value")
             THEN List(<<child.v.value>> \o rest.v)
             ELSE rest

\* the text parts one node of the document contributes
NodeTexts(node) ==
    IF node.t = "dict"
    THEN IF DictGet(node, "nodeType", None) = Str(<<"paragraph">>)
         THEN LET kids == Iter(DictGet(node, "content", List(<< >>)))
              IN  IF kids = Raise THEN Raise ELSE DictChildTexts(kids.v)
         ELSE List(<< >>)
    ELSE IF HasAttr(node, "content")
    THEN LET kids == Iter(node.v.content)
         IN  IF kids = Raise THEN Raise ELSE ObjChildTexts(kids.v)
    ELSE List(<< >>)

RECURSIVE TextParts(_)
\* the outer loop over the document's nodes
TextParts(content) ==
    IF Len(content) = 0 THEN List(<< >>)
    ELSE LET here == NodeTexts(content[1])
         IN  IF here = Raise THEN Raise
             ELSE LET rest == TextParts(Tail(content))
                  IN  IF rest = Raise THEN Raise ELSE List(here.v \o rest.v)

\* the mutant of parse_rich_text_body: the parts are joined by spaces, not
\* by line breaks
parse_rich_text_body_spaced(rich_text) ==
    IF rich_text.t = "str" THEN rich_text
    ELSE IF HasAttr(rich_text, "content") \/ HasKey(rich_text, "content")
    THEN LET content == Iter(rich_text.v.content)
         IN  IF content = Raise THEN Raise
             ELSE LET parts == TextParts(content.v)
                      joined == IF parts = Raise THEN Raise
                                ELSE JoinLines(parts.v)
                  IN  IF joined = Raise THEN Raise
                      ELSE Str([i \in 1..Len(joined.v) |->
                                   IF joined.v[i] = "\n" THEN " "
                                   ELSE joined.v[i]])
    ELSE PyStr(rich_text)

parse_rich_text_body(rich_text) ==
    IF rich_text.t = "str" THEN rich_text
    ELSE IF HasAttr(rich_text, "content") \/ HasKey(rich_text, "content")
    THEN LET content == Iter(rich_text.v.content)
         IN  IF content = Raise THEN Raise
             ELSE LET parts == TextParts(content.v)
                  IN  IF parts = Raise THEN Raise ELSE JoinLines(parts.v)
    ELSE PyStr(rich_text)

parse_rich_text(rich_text) ==
    IF ~Truthy(rich_text) THEN EmptyStr
    ELSE LET r == parse_rich_text_body(rich_text)
         IN  IF r = Raise THEN PyStr(rich_text) ELSE r


---------------------------------------------------------------------------
\* Entry Parser

\* Coordinates are kept in units of 1/10000 degree.
DefaultLat == 173850
DefaultLon == 784867

ErrorStub == Dict([title |-> Str(<<"Error">>), slug |-> EmptyStr])
NotificationErrorStub == Dict([title |-> Str(<<"Error">>)])

\* image_url / document_url : the asset attribute, when present and truthy
AssetUrlOf(entry, attr) ==
    IF HasAttr(entry, attr) /\ Truthy(entry.v[attr])
    THEN get_asset_url(entry.v[attr])
    ELSE None

\* lat, lon of a property entry, the Hyderabad default when it has none
LocationOf(entry) ==
    LET location == GetAttr(entry, "location", None)
        dflt == [lat |-> Num(DefaultLat), lon |-> Num(DefaultLon)]
    IN  IF ~Truthy(location) THEN Dict(dflt)
        ELSE IF HasAttr(location, "lat")
        THEN LET lon == Attr(location, "lon")
             IN  IF lon = Raise THEN Raise
                 ELSE Dict([lat |-> location.v.lat, lon |-> lon])
        ELSE IF location.t = "dict"
        THEN Dict([lat |-> DictGet(location, "lat", dflt.lat),
                   lon |-> DictGet(location, "lon", dflt.lon)])
        ELSE Dict(dflt)

\* the developer embedded in a property entry, one level deep
DeveloperOf(entry) ==
    IF HasAttr(entry, "developer") /\ Truthy(entry.v.developer)
    THEN LET dev == entry.v.developer
             id == IF HasAttr(dev, "sys")
                   THEN DictGet(dev.v.sys, "id", EmptyStr)
                   ELSE EmptyStr
         IN  IF id = Raise THEN Raise
             ELSE Dict([id |-> id,
                        name |-> GetAttr(dev, "name", Str(<<"Unknown">>))])
    ELSE None

\* entry.sys.get(key, '')
SysGet(entry, key) ==
    LET sys == Attr(entry, "sys")
    IN  IF sys = Raise THEN Raise ELSE DictGet(sys, key, EmptyStr)

\* the mutant of OptionalAttr: a numeric default where the code has None
OptionalAttrZero(entry, attr) == GetAttr(entry, attr, Num(0))

\* getattr(entry, attr, None)
OptionalAttr(entry, attr) == GetAttr(entry, attr, None)

parse_property_entry_body(entry) ==
    LET image_url == AssetUrlOf(entry, "image")
        location == LocationOf(entry)
        developer == DeveloperOf(entry)
        id == SysGet(entry, "id")
        created_at == SysGet(entry, "createdAt")
    IN  IF Raise \in {location, developer, id, created_at} THEN Raise
        ELSE Dict([
            id |-> id,
            title |-> GetAttr(entry, "title", EmptyStr),
            slug |-> GetAttr(entry, "slug", EmptyStr),
            property_type |-> GetAttr(entry, "propertyType", EmptyStr),
            price |-> GetAttr(entry, "price", Num(0)),
            city |-> GetAttr(entry, "city", EmptyStr),
            location |-> location,
            description |->
                parse_rich_text(GetAttr(entry, "description", EmptyStr)),
            carpet_area |-> OptionalAttr(entry, "carpetArea"),
            floor_number |-> OptionalAttr(entry, "floorNumber"),
            total_floors |-> OptionalAttr(entry, "totalNoOfFloors"),
            possession_date |-> OptionalAttr(entry, "pocessionByDate"),
            loan_approved_by |-> GetAttr(entry, "loanApprovedBy", EmptyStr),
            image_url |-> image_url,
            developer |-> developer,
            created_at |-> created_at])

parse_property_entry(entry) ==
    LET r == parse_property_entry_body(entry)
    IN  IF r = Raise THEN ErrorStub ELSE r

parse_blog_entry_body(entry) ==
    LET image_url == AssetUrlOf(entry, "image")
        id == SysGet(entry, "id")
        created_at == SysGet(entry, "createdAt")
    IN  IF Raise \in {id, created_at} THEN Raise
        ELSE Dict([
            id |-> id,
            title |-> GetAttr(entry, "title", EmptyStr),
            slug |-> GetAttr(entry, "slug", EmptyStr),
            content |-> parse_rich_text(GetAttr(entry, "content", EmptyStr)),
            excerpt |-> GetAttr(entry, "excerpt", EmptyStr),
            image_url |-> image_url,
            author |-> GetAttr(entry, "author", Str(<<"Admin">>)),
            created_at |-> created_at])

parse_blog_entry(entry) ==
    LET r == parse_blog_entry_body(entry)
    IN  IF r = Raise THEN ErrorStub ELSE r

parse_notification_entry_body(entry) ==
    LET doc_url == AssetUrlOf(entry, "document")
        id == SysGet(entry, "id")
    IN  IF id = Raise THEN Raise
        ELSE Dict([
            id |-> id,
            title |-> GetAttr(entry, "title", EmptyStr),
            subject |-> GetAttr(entry, "subject", EmptyStr),
            date |-> GetAttr(entry, "date", EmptyStr),
            document_url |-> doc_url])

parse_notification_entry(entry) ==
    LET r == parse_notification_entry_body(entry)
    IN  IF r = Raise THEN NotificationErrorStub ELSE r

\* the body of the loop of fetch_developers: no handler of its own
DeveloperItem(entry) ==
    LET id == SysGet(entry, "id")
    IN  IF id = Raise THEN Raise
        ELSE Dict([
            id |-> id,
            name |-> GetAttr(entry, "name", Str(<<"Unknown">>)),
            logo |-> get_asset_url(GetAttr(entry, "logo", None))])

---------------------------------------------------------------------------
\* Delivery API: the read path

\* contentful.Client(space, token), or None when not configured
get_delivery_client ==
    IF ~Truthy(cfg.space) \/ ~Truthy(cfg.read) THEN None
    ELSE Obj([space |-> cfg.space, token |-> cfg.read])

RECURSIVE Reverse(_)
Reverse(s) == IF Len(s) = 0 THEN << >> ELSE Reverse(Tail(s)) \o <<s[1]>>

\* the key of 'order': '-fields.date' ; entries without a date sort last
DateKey(raw) ==
    IF HasAttr(raw, "date") /\ raw.v.date.t = "date" THEN raw.v.date.v ELSE -1

RECURSIVE InsertByDate(_, _)
InsertByDate(raw, sorted) ==
    IF Len(sorted) = 0 THEN <<raw>>
    ELSE IF DateKey(raw) > DateKey(sorted[1]) THEN <<raw>> \o sorted
    ELSE <<sorted[1]>> \o InsertByDate(raw, Tail(sorted))

RECURSIVE SortByDateDesc(_)
SortByDateDesc(s) ==
    IF Len(s) = 0 THEN << >>
    ELSE InsertByDate(s[Len(s)], SortByDateDesc(SubSeq(s, 1, Len(s) - 1)))

\* the raw entries of one content type the delivery API can see, oldest first
Visible(content_type) ==
    LET items == SelectSeq(remote,
                     LAMBDA it : it.kind = content_type /\ it.published)
    IN  [i \in 1..Len(items) |-> items[i].raw]

Take(s, n) == IF Len(s) <= n THEN s ELSE SubSeq(s, 1, n)

\* the query dict handed to client.entries: order "created" is
\* '-sys.createdAt', "date" is '-fields.date', "none" is no 'order' key;
\* slug None is no 'fields.slug' key; limit 0 is no 'limit' key
Query(content_type, order, slug, limit) ==
    [content_type |-> content_type, order |-> order,
     slug |-> slug, limit |-> limit]

\* what the remote store answers to a query
Entries(q) ==
    LET all == Visible(q.content_type)
        ordered == CASE q.order = "created" -> Reverse(all)
                     [] q.order = "date" -> SortByDateDesc(Reverse(all))
                     [] OTHER -> all
        matching == IF q.slug = None THEN ordered
                    ELSE SelectSeq(ordered,
                             LAMBDA raw : GetAttr(raw, "slug", Absent) = q.slug)
    IN  IF q.limit = 0 THEN matching ELSE Take(matching, q.limit)

\* client.entries(query) over the network: a transport failure raises
ClientEntries(fail, q) == IF fail THEN Raise ELSE List(Entries(q))

\* one remote call, as the remote store sees it
Call(api, arg) == [api |-> api, arg |-> arg]

\* what one call hands back: its return value (Raise when an exception
\* leaves it) and the remote calls it issued
Outcome(ret, issued) == [ret |-> ret, calls |-> issued]

\* the mutant of Try: no handler, the exception leaves the function
TryNoHandler(outcome, onError) == outcome

\* try: ... except Exception: return onError
Try(outcome, onError) ==
    IF outcome.ret = Raise THEN Outcome(onError, outcome.calls) ELSE outcome

RECURSIVE MapItems(_)
\* the loop of fetch_developers: the first failing item ends it
MapItems(entries) ==
    IF Len(entries) = 0 THEN List(<< >>)
    ELSE LET item == DeveloperItem(entries[1])
         IN  IF item = Raise THEN Raise
             ELSE LET rest == MapItems(Tail(entries))
                  IN  IF rest = Raise THEN Raise
                      ELSE List(<<item>> \o rest.v)

fetch_properties_body(fail) ==
    IF ~Truthy(get_delivery_client) THEN Outcome(List(<< >>), << >>)
    ELSE LET q == Query("property", "created", None, 0)
             entries == ClientEntries(fail, q)
         IN  IF entries = Raise THEN Outcome(Raise, <<Call("cda.entries", q)>>)
             ELSE Outcome(
                      List([i \in 1..Len(entries.v) |->
                               parse_property_entry(entries.v[i])]),
                      <<Call("cda.entries", q)>>)

fetch_properties(fail) == Try(fetch_properties_body(fail), List(<< >>))

\* the mutant of fetch_property_by_slug_body: the query drops 'fields.slug'
fetch_property_by_slug_unfiltered(slug, fail) ==
    IF ~Truthy(get_delivery_client) THEN Outcome(None, << >>)
    ELSE LET q == Query("property", "none", None, 1)
             entries == ClientEntries(fail, q)
         IN  IF entries = Raise THEN Outcome(Raise, <<Call("cda.entries", q)>>)
             ELSE Outcome(
                      IF Truthy(entries)
                      THEN parse_property_entry(entries.v[1])
                      ELSE None,
                      <<Call("cda.entries", q)>>)

fetch_property_by_slug_body(slug, fail) ==
    IF ~Truthy(get_delivery_client) THEN Outcome(None, << >>)
    ELSE LET q == Query("property", "none", slug, 1)
             entries == ClientEntries(fail, q)
         IN  IF entries = Raise THEN Outcome(Raise, <<Call("cda.entries", q)>>)
             ELSE Outcome(
                      IF Truthy(entries)
                      THEN parse_property_entry(entries.v[1])
                      ELSE None,
                      <<Call("cda.entries", q)>>)

fetch_property_by_slug(slug, fail) ==
    Try(fetch_property_by_slug_body(slug, fail), None)

fetch_blogs_body(fail) ==
    IF ~Truthy(get_delivery_client) THEN Outcome(List(<< >>), << >>)
    ELSE LET q == Query("blogPost", "created", None, 0)
             entries == ClientEntries(fail, q)
         IN  IF entries = Raise THEN Outcome(Raise, <<Call("cda.entries", q)>>)
             ELSE Outcome(
                      List([i \in 1..Len(entries.v) |->
                               parse_blog_entry(entries.v[i])]),
                      <<Call("cda.entries", q)>>)

fetch_blogs(fail) == Try(fetch_blogs_body(fail), List(<< >>))

fetch_blog_by_slug_body(slug, fail) ==
    IF ~Truthy(get_delivery_client) THEN Outcome(None, << >>)
    ELSE LET q == Query("blogPost", "none", slug, 1)
             entries == ClientEntries(fail, q)
         IN  IF entries = Raise THEN Outcome(Raise, <<Call("cda.entries", q)>>)
             ELSE Outcome(
                      IF Truthy(entries) THEN parse_blog_entry(entries.v[1])
                      ELSE None,
                      <<Call("cda.entries", q)>>)

fetch_blog_by_slug(slug, fail) ==
    Try(fetch_blog_by_slug_body(slug, fail), None)

fetch_notifications_body(limit, fail) ==
    IF ~Truthy(get_delivery_client) THEN Outcome(List(<< >>), << >>)
    ELSE LET q == Query("notification", "date", None, limit)
             entries == ClientEntries(fail, q)
         IN  IF entries = Raise THEN Outcome(Raise, <<Call("cda.entries", q)>>)
             ELSE Outcome(
                      List([i \in 1..Len(entries.v) |->
                               parse_notification_entry(entries.v[i])]),
                      <<Call("cda.entries", q)>>)

fetch_notifications(limit, fail) ==
    Try(fetch_notifications_body(limit, fail), List(<< >>))

fetch_developers_body(fail) ==
    IF ~Truthy(get_delivery_client) THEN Outcome(List(<< >>), << >>)
    ELSE LET q == Query("developer", "none", None, 0)
             entries == ClientEntries(fail, q)
         IN  IF entries = Raise THEN Outcome(Raise, <<Call("cda.entries", q)>>)
             ELSE Outcome(MapItems(entries.v), <<Call("cda.entries", q)>>)

fetch_developers(fail) == Try(fetch_developers_body(fail), List(<< >>))

---------------------------------------------------------------------------
\* Management API: the write path

\* contentful_management.Client(token), or None when not configured
get_management_client ==
    IF ~Truthy(cfg.cma) THEN None ELSE Obj([token |-> cfg.cma])

\* a or b
PyOr(a, b) == IF Truthy(a) THEN a ELSE b

UpperCase == <<"A", "B", "C", "D", "E", "F", "G", "H", "I", "J", "K", "L", "M",
               "N", "O", "P", "Q", "R", "S", "T", "U", "V", "W", "X", "Y", "Z">>
LowerCase == <<"a", "b", "c", "d", "e", "f", "g", "h", "i", "j", "k", "l", "m",
               "n", "o", "p", "q", "r", "s", "t", "u", "v", "w", "x", "y", "z">>

\* one symbol of s.lower()
LowerSym(c) ==
    IF \E i \in 1..Len(UpperCase) : UpperCase[i] = c
    THEN LowerCase[CHOOSE i \in 1..Len(UpperCase) : UpperCase[i] = c]
    ELSE c

\* s.lower()
Lower(s) == [i \in 1..Len(s) |-> LowerSym(s[i])]

\* needle in hay, on symbol sequences
Contains(hay, needle) ==
    \E i \in 1..(Len(hay) - Len(needle) + 1) :
        SubSeq(hay, i, i + Len(needle) - 1) = needle

\* the city table, in declaration order; coordinates in 1/10000 degree
CITY_COORDS == <<
    [city |-> <<"h", "y", "d", "e", "r", "a", "b", "a", "d">>,
     lat |-> 173850, lon |-> 784867],
    [city |-> <<"m", "u", "m", "b", "a", "i">>, lat |-> 190760, lon |-> 728777],
    [city |-> <<"b", "a", "n", "g", "a", "l", "o", "r", "e">>,
     lat |-> 129716, lon |-> 775946],
    [city |-> <<"d", "e", "l", "h", "i">>, lat |-> 286139, lon |-> 772090],
    [city |-> <<"c", "h", "e", "n", "n", "a", "i">>,
     lat |-> 130827, lon |-> 802707],
    [city |-> <<"p", "u", "n", "e">>, lat |-> 185204, lon |-> 738567],
    [city |-> <<"k", "o", "l", "k", "a", "t", "a">>,
     lat |-> 225726, lon |-> 883639] >>

\* the mutant of geocode_location: the city that occurs leftmost in the
\* text wins, not the one declared first
geocode_location_leftmost(location_name) ==
    LET dflt == Dict([lat |-> Num(DefaultLat), lon |-> Num(DefaultLon)])
    IN  IF ~Truthy(location_name) THEN dflt
        ELSE LET lower == Lower(location_name.v)
                 at(i) == CHOOSE k \in 1..Len(lower) :
                              /\ k + Len(CITY_COORDS[i].city) - 1 <= Len(lower)
                              /\ SubSeq(lower, k, k + Len(CITY_COORDS[i].city) - 1)
                                     = CITY_COORDS[i].city
                              /\ \A j \in 1..(k - 1) :
                                     SubSeq(lower, j, j + Len(CITY_COORDS[i].city) - 1)
                                         # CITY_COORDS[i].city
                 hits == {i \in 1..Len(CITY_COORDS) :
                             Contains(lower, CITY_COORDS[i].city)}
             IN  IF hits = {} THEN dflt
                 ELSE LET first == CHOOSE i \in hits :
                                       \A j \in hits : at(i) <= at(j)
                      IN  Dict([lat |-> Num(CITY_COORDS[first].lat),
                                lon |-> Num(CITY_COORDS[first].lon)])

geocode_location(location_name) ==
    LET dflt == Dict([lat |-> Num(DefaultLat), lon |-> Num(DefaultLon)])
    IN  IF ~Truthy(location_name) THEN dflt
        ELSE LET lower == Lower(location_name.v)
                 hits == {i \in 1..Len(CITY_COORDS) :
                             Contains(lower, CITY_COORDS[i].city)}
             IN  IF hits = {} THEN dflt
                 ELSE LET first == CHOOSE i \in hits : \A j \in hits : i <= j
                      IN  Dict([lat |-> Num(CITY_COORDS[first].lat),
                                lon |-> Num(CITY_COORDS[first].lon)])

\* the characters str.strip() removes
Whitespace == {" ", "\t", "\r", "\n"}

RECURSIVE LStrip(_)
LStrip(s) ==
    IF Len(s) > 0 /\ s[1] \in Whitespace THEN LStrip(Tail(s)) ELSE s

RECURSIVE RStrip(_)
RStrip(s) ==
    IF Len(s) > 0 /\ s[Len(s)] \in Whitespace
    THEN RStrip(SubSeq(s, 1, Len(s) - 1))
    ELSE s

\* s.strip()
Strip(s) == RStrip(LStrip(s))

RECURSIVE SplitLines(_)
\* s.split('\n'): a sequence of lines, one more than there are line breaks
SplitLines(s) ==
    IF \A i \in 1..Len(s) : s[i] # "\n" THEN <<s>>
    ELSE LET k == CHOOSE i \in 1..Len(s) :
                      s[i] = "\n" /\ \A j \in 1..(i - 1) : s[j] # "\n"
         IN  <<SubSeq(s, 1, k - 1)>> \o SplitLines(SubSeq(s, k + 1, Len(s)))

\* one paragraph node holding one text node
Paragraph(value) ==
    Dict([nodeType |-> Str(<<"paragraph">>),
          data |-> Dict([none |-> Absent]),
          content |-> List(<<
              Dict([nodeType |-> Str(<<"text">>),
                    value |-> Str(value),
                    marks |-> List(<< >>),
                    data |-> Dict([none |-> Absent])]) >>)])

\* the mutant of build_rich_text: blank lines are kept as empty paragraphs
build_rich_text_keeps_blank(text) ==
    LET txt == IF ~Truthy(text) THEN <<"No description provided.">> ELSE text.v
        paragraphs == SplitLines(txt)
    IN  Dict([nodeType |-> Str(<<"document">>),
              data |-> Dict([none |-> Absent]),
              content |-> List([i \in 1..Len(paragraphs) |->
                                   Paragraph(Strip(paragraphs[i]))])])

build_rich_text(text) ==
    LET txt == IF ~Truthy(text) THEN <<"No description provided.">> ELSE text.v
        paragraphs == SplitLines(txt)
        kept == SelectSeq(paragraphs, LAMBDA para : Len(Strip(para)) > 0)
        content == IF Len(kept) = 0 THEN <<Paragraph(<<"No description">>)>>
                   ELSE [i \in 1..Len(kept) |-> Paragraph(Strip(kept[i]))]
    IN  Dict([nodeType |-> Str(<<"document">>),
              data |-> Dict([none |-> Absent]),
              content |-> List(content)])

\* {'en-US': value}
Localized(value) == Dict([en_US |-> value])

\* {'sys': {'type': 'Link', 'linkType': linkType, 'id': id}}
Link(linkType, id) ==
    Dict([sys |-> Dict([type |-> Str(<<"Link">>),
                        linkType |-> Str(<<linkType>>),
                        id |-> id])])

\* the steps of upload_image_to_contentful, in program order
\* the mutant of UploadSteps: the asset is published before it is processed
UploadStepsPublishFirst ==
    <<"cma.spaces.find", "cma.environments.find", "local.read",
      "cma.uploads.create", "cma.assets.create",
      "cma.asset.publish", "cma.asset.process", "time.sleep",
      "cma.assets.find">>

UploadSteps == <<"cma.spaces.find", "cma.environments.find", "local.read",
                 "cma.uploads.create", "cma.assets.create",
                 "cma.asset.process", "time.sleep", "cma.assets.find",
                 "cma.asset.publish">>

\* the position of a step in a sequence of steps, 0 when it is not one
StepIndex(steps, step) ==
    IF \E i \in 1..Len(steps) : steps[i] = step
    THEN CHOOSE i \in 1..Len(steps) : steps[i] = step
    ELSE 0

\* the steps that ran when the step failAt raised ("none": all of them)
StepsRun(steps, failAt) ==
    IF StepIndex(steps, failAt) = 0 THEN steps
    ELSE SubSeq(steps, 1, StepIndex(steps, failAt))

\* whether a step ran and did not raise
StepDone(steps, failAt, step) ==
    \/ StepIndex(steps, failAt) = 0
    \/ StepIndex(steps, step) < StepIndex(steps, failAt)

\* where a call really fails: find('') cannot name a space, so with no space
\* id nothing gets past the lookup of the environment
FailPoint(steps, failAt) ==
    IF ~Truthy(cfg.space)
       /\ (StepIndex(steps, failAt) = 0 \/ StepIndex(steps, failAt) > 2)
    THEN steps[2]
    ELSE failAt

\* the calls among the steps that ran, the fixed pause included; reading
\* the local file is not a call
RemoteCalls(ran) ==
    LET remoteOnly == SelectSeq(ran, LAMBDA st : st # "local.read")
    IN  [i \in 1..Len(remoteOnly) |-> Call(remoteOnly[i], None)]

\* what a write-path call hands back: its return value, its remote calls,
\* and the remote store it leaves
Effect(ret, issued, entries, stored) ==
    [ret |-> ret, calls |-> issued, remote |-> entries, assets |-> stored]

\* the mutant of TryEffect: no handler, the exception leaves the function
TryEffectNoHandler(e) == e

\* try: ... except Exception: return None
TryEffect(e) == IF e.ret = Raise THEN [e EXCEPT !.ret = None] ELSE e

NextAssetId(stored) == Str(<<"asset", ToString(Len(stored) + 1)>>)

upload_image_to_contentful_body(image_file, title, failure, stored) ==
    IF ~Truthy(get_management_client)
    THEN Effect(None, << >>, remote, stored)
    ELSE LET failAt == FailPoint(UploadSteps, failure)
             done(step) == StepDone(UploadSteps, failAt, step)
             id == NextAssetId(stored)
             asset == [id |-> id, title |-> title,
                       processed |-> done("cma.asset.process"),
                       published |-> done("cma.asset.publish")]
         IN  Effect(IF done("cma.asset.publish") THEN id ELSE Raise,
                    RemoteCalls(StepsRun(UploadSteps, failAt)),
                    remote,
                    IF done("cma.assets.create") THEN Append(stored, asset)
                    ELSE stored)

\* the mutant of upload_image_to_contentful: its failure is not caught
upload_image_unhandled(image_file, title, failure, stored) ==
    upload_image_to_contentful_body(image_file, title, failure, stored)

upload_image_to_contentful(image_file, title, failure, stored) ==
    TryEffect(upload_image_to_contentful_body(image_file, title, failure, stored))

\* the mutant of OptionalField: the key is left out only for None
OptionalFieldNotNone(value) ==
    IF value # None THEN Localized(value) ELSE Absent

\* the mutant of OptionalField: the key is set without a presence check
OptionalFieldAlways(value) == Localized(value)

\* the optional key of the field set: present when the attribute is truthy
OptionalField(value) == IF Truthy(value) THEN Localized(value) ELSE Absent

\* the field set of sync_property_to_contentful, image and developer apart
ScalarFields(p) ==
    [title |-> Localized(p.v.title),
     slug |-> Localized(p.v.slug),
     propertyType |-> Localized(p.v.property_type),
     location |-> Localized(geocode_location(PyOr(p.v.city, p.v.location))),
     price |-> Localized(p.v.price),
     city |-> Localized(PyOr(p.v.city, EmptyStr)),
     description |-> Localized(build_rich_text(p.v.description)),
     carpetArea |-> OptionalField(p.v.carpet_area),
     floorNumber |-> OptionalField(p.v.floor_number),
     totalNoOfFloors |-> OptionalField(p.v.total_floors),
     pocessionByDate |->
         IF Truthy(p.v.possession_date)
         THEN Localized(PyStr(p.v.possession_date))
         ELSE Absent,
     loanApprovedBy |-> OptionalField(p.v.loan_approved_by)]

\* property_instance.image and os.path.exists(property_instance.image.path)
ImageResolvable(p) == Truthy(p.v.image) /\ p.v.image.v.on_disk.v

\* the whole field set handed to entries().create
EntryFields(p, asset_id, developer_id) ==
    LET f == ScalarFields(p)
    IN  Dict([k \in DOMAIN f \cup {"image", "developer"} |->
            CASE k = "image" ->
                     IF Truthy(asset_id) THEN Localized(Link("Asset", asset_id))
                     ELSE Absent
              [] k = "developer" ->
                     IF Truthy(developer_id)
                     THEN Localized(Link("Entry", developer_id))
                     ELSE Absent
              [] OTHER -> f[k]])

\* one field of an entry as the delivery API hands it out
Delivered(name, localized) ==
    IF localized = Absent THEN Absent
    ELSE LET v == localized.v.en_US
         IN  CASE name = "location" -> Obj([lat |-> v.v.lat, lon |-> v.v.lon])
               [] name = "image" ->
                      Obj([url |-> Str(<<"//", "assets.example.com/">>
                                       \o v.v.sys.v.id.v),
                           fields |-> Absent])
               [] name = "developer" ->
                      Obj([sys |-> Dict([id |-> v.v.sys.v.id,
                                         createdAt |-> Absent]),
                           name |-> Absent])
               [] OTHER -> v

\* the entry entries().create stores, as the delivery API hands it out
Deliver(id, fields) ==
    Obj([k \in DOMAIN fields.v \cup {"sys"} |->
            IF k = "sys"
            THEN Dict([id |-> id,
                       createdAt |-> Str(<<"t", ToString(Len(remote) + 1)>>)])
            ELSE Delivered(k, fields.v[k])])

SyncSteps == <<"cma.spaces.find", "cma.environments.find",
               "cma.entries.create", "cma.entry.publish">>

NextEntryId == Str(<<"entry", ToString(Len(remote) + 1)>>)

sync_property_to_contentful_body(p, developer_id, failure, upFailAt) ==
    IF ~Truthy(get_management_client)
    THEN Effect(None, << >>, remote, assets)
    ELSE IF ~StepDone(SyncSteps, FailPoint(SyncSteps, failure),
                      "cma.environments.find")
    THEN Effect(Raise,
                RemoteCalls(StepsRun(SyncSteps, FailPoint(SyncSteps, failure))),
                remote, assets)
    ELSE LET failAt == FailPoint(SyncSteps, failure)
             done(step) == StepDone(SyncSteps, failAt, step)
             up == IF ImageResolvable(p)
                   THEN upload_image_to_contentful(
                            p.v.image.v.path, p.v.title, upFailAt, assets)
                   ELSE Effect(None, << >>, remote, assets)
             fields == EntryFields(p, up.ret, developer_id)
             id == NextEntryId
             entry == [kind |-> "property",
                       published |-> done("cma.entry.publish"),
                       raw |-> Deliver(id, fields)]
             issued ==
                 RemoteCalls(SubSeq(SyncSteps, 1, 2)) \o up.calls
                 \o <<Call("cma.entries.create", fields)>>
                 \o IF done("cma.entries.create")
                    THEN <<Call("cma.entry.publish", None)>> ELSE << >>
         IN  IF up.ret = Raise
             THEN Effect(Raise, RemoteCalls(SubSeq(SyncSteps, 1, 2)) \o up.calls,
                         remote, up.assets)
             ELSE Effect(IF done("cma.entry.publish") THEN id ELSE Raise,
                         issued,
                         IF done("cma.entries.create") THEN Append(remote, entry)
                         ELSE remote,
                         up.assets)

sync_property_to_contentful(p, developer_id, failure, upFailAt) ==
    TryEffect(sync_property_to_contentful_body(p, developer_id, failure, upFailAt))

---------------------------------------------------------------------------
\* The shapes of raw entries the delivery client may hand to the parser

GoodSys == Dict([id |-> Str(<<"e1">>), createdAt |-> Str(<<"t1">>)])
SysShapes == {Absent, None, GoodSys}

GoodAsset == Obj([url |-> Str(<<"//", "images.example.com/x.jpg">>),
                  fields |-> Absent])
FileAsset ==
    Obj([url |-> Absent,
         fields |-> Dict([file |->
                     Dict([url |-> Str(<<"https://cdn.example.com/y.jpg">>)])])])
AssetShapes == {Absent, None, GoodAsset, FileAsset}

GoodLocation == Obj([lat |-> Num(190760), lon |-> Num(728777)])
LocationShapes ==
    {Absent, None, GoodLocation,
     Obj([lat |-> Num(190760), lon |-> Absent]),
     Dict([lat |-> Num(129716), lon |-> Num(775946)]),
     Dict([lat |-> Num(129716), lon |-> Absent]),
     Dict([lat |-> None, lon |-> None]),
     Str(<<"Mumbai">>)}

GoodDeveloper ==
    Obj([sys |-> Dict([id |-> Str(<<"d1">>), createdAt |-> Str(<<"t0">>)]),
         name |-> Str(<<"Acme">>)])
DeveloperShapes ==
    {Absent, None, GoodDeveloper,
     Obj([sys |-> Absent, name |-> Absent]),
     Obj([sys |-> None, name |-> Str(<<"Acme">>)])}

GoodDocument ==
    Dict([nodeType |-> Str(<<"document">>),
          data |-> Dict([none |-> Absent]),
          content |-> List(<<Paragraph(<<"a">>), Paragraph(<<"b">>)>>)])
RichTextShapes ==
    {Absent, Str(<<"a", "\n", "b">>), GoodDocument,
     Dict([nodeType |-> Str(<<"document">>),
           data |-> Dict([none |-> Absent]),
           content |-> None])}

Opt(value) == {Absent, value}

RawPropertyEntries ==
    {Obj([sys |-> sys,
          title |-> req.title, slug |-> req.slug,
          propertyType |-> req.propertyType, price |-> req.price,
          city |-> req.city,
          location |-> location, description |-> description,
          carpetArea |-> carpetArea, floorNumber |-> floorNumber,
          totalNoOfFloors |-> totalNoOfFloors,
          pocessionByDate |-> pocessionByDate,
          loanApprovedBy |-> loanApprovedBy,
          image |-> image, developer |-> developer]) :
        sys \in SysShapes,
        req \in {[title |-> Str(<<"Lake Villa">>), slug |-> Str(<<"lake-villa-1">>),
                  propertyType |-> Str(<<"villa">>), price |-> Num(5000000),
                  city |-> Str(<<"Mumbai">>)],
                 [title |-> Absent, slug |-> Absent, propertyType |-> Absent,
                  price |-> Absent, city |-> Absent]},
        location \in LocationShapes,
        description \in {Absent, GoodDocument},
        carpetArea \in Opt(Num(1200)),
        floorNumber \in Opt(Num(0)),
        totalNoOfFloors \in Opt(Num(12)),
        pocessionByDate \in Opt(Str(<<"2026-01-01">>)),
        loanApprovedBy \in Opt(Str(<<"sbi">>)),
        image \in {Absent, GoodAsset},
        developer \in DeveloperShapes}

RawBlogEntries ==
    {Obj([sys |-> sys, title |-> title, slug |-> slug, content |-> content,
          excerpt |-> excerpt, image |-> image, author |-> author]) :
        sys \in SysShapes,
        title \in Opt(Str(<<"Market news">>)),
        slug \in Opt(Str(<<"market-news">>)),
        content \in RichTextShapes,
        excerpt \in Opt(Str(<<"short">>)),
        image \in AssetShapes,
        author \in Opt(Str(<<"Editor">>))}

RawNotificationEntries ==
    {Obj([sys |-> sys, title |-> title, subject |-> subject, date |-> date,
          document |-> document]) :
        sys \in SysShapes,
        title \in Opt(Str(<<"Circular">>)),
        subject \in Opt(Str(<<"RERA">>)),
        date \in Opt(Date(2)),
        document \in AssetShapes}

RawDeveloperEntries ==
    {Obj([sys |-> sys, name |-> name, logo |-> logo]) :
        sys \in SysShapes,
        name \in Opt(Str(<<"Acme">>)),
        logo \in AssetShapes}

---------------------------------------------------------------------------
\* The Entry Parser on its own: a raw entry goes in, an entity comes out

ParserInputs ==
    [name : {"input"}, kind : {"property"}, entry : RawPropertyEntries]
    \cup [name : {"input"}, kind : {"blogPost"}, entry : RawBlogEntries]
    \cup [name : {"input"}, kind : {"notification"},
          entry : RawNotificationEntries]
    \cup [name : {"input"}, kind : {"developer"}, entry : RawDeveloperEntries]

InitParse ==
    /\ cfg = [space |-> EmptyStr, read |-> EmptyStr, cma |-> EmptyStr]
    /\ remote = << >>
    /\ assets = << >>
    /\ op \in ParserInputs
    /\ result = None
    /\ calls = << >>
    /\ served = 0

ParseProperty ==
    /\ op.name = "input" /\ op.kind = "property"
    /\ op' = [op EXCEPT !.name = "parse_property_entry"]
    /\ result' = parse_property_entry(op.entry)
    /\ served' = served + 1
    /\ UNCHANGED <<cfg, remote, assets, calls>>

ParseBlog ==
    /\ op.name = "input" /\ op.kind = "blogPost"
    /\ op' = [op EXCEPT !.name = "parse_blog_entry"]
    /\ result' = parse_blog_entry(op.entry)
    /\ served' = served + 1
    /\ UNCHANGED <<cfg, remote, assets, calls>>

ParseNotification ==
    /\ op.name = "input" /\ op.kind = "notification"
    /\ op' = [op EXCEPT !.name = "parse_notification_entry"]
    /\ result' = parse_notification_entry(op.entry)
    /\ served' = served + 1
    /\ UNCHANGED <<cfg, remote, assets, calls>>

\* a developer entry has no parser of its own: the loop body of
\* fetch_developers is all there is
ParseDeveloper ==
    /\ op.name = "input" /\ op.kind = "developer"
    /\ op' = [op EXCEPT !.name = "developer_item"]
    /\ result' = DeveloperItem(op.entry)
    /\ served' = served + 1
    /\ UNCHANGED <<cfg, remote, assets, calls>>

SpecParse ==
    InitParse
    /\ [][ParseProperty \/ ParseBlog \/ ParseNotification \/ ParseDeveloper]_vars

---------------------------------------------------------------------------
\* The Content Resolver against a remote store

MaxRemote == 2

Item(kind, raw) == [kind |-> kind, published |-> TRUE, raw |-> raw]

SysOf(id, createdAt) == Dict([id |-> Str(<<id>>), createdAt |-> Str(<<createdAt>>)])

StoreSamples == {
    Item("property",
         Obj([sys |-> SysOf("p1", "t1"), title |-> Str(<<"Lake Villa">>),
              slug |-> Str(<<"lake-villa-1">>), propertyType |-> Str(<<"villa">>),
              price |-> Num(5000000), city |-> Str(<<"Mumbai">>),
              location |-> GoodLocation, description |-> GoodDocument,
              carpetArea |-> Num(1200), floorNumber |-> Absent,
              totalNoOfFloors |-> Absent, pocessionByDate |-> Absent,
              loanApprovedBy |-> Str(<<"sbi">>), image |-> GoodAsset,
              developer |-> GoodDeveloper])),
    Item("property",
         Obj([sys |-> SysOf("p2", "t2"), title |-> Str(<<"Plot">>),
              slug |-> Str(<<"plot-2">>)])),
    Item("property",
         Obj([sys |-> Absent, title |-> Str(<<"Broken">>),
              slug |-> Str(<<"lake-villa-1">>)])),
    Item("blogPost",
         Obj([sys |-> SysOf("b1", "t1"), title |-> Str(<<"Market news">>),
              slug |-> Str(<<"market-news">>), content |-> GoodDocument,
              excerpt |-> Absent, image |-> Absent, author |-> Absent])),
    Item("blogPost",
         Obj([sys |-> None, title |-> Str(<<"Broken">>),
              slug |-> Str(<<"broken-post">>)])),
    Item("notification",
         Obj([sys |-> SysOf("n1", "t1"), title |-> Str(<<"Circular">>),
              subject |-> Str(<<"RERA">>), date |-> Date(2),
              document |-> FileAsset])),
    Item("notification",
         Obj([sys |-> Absent, title |-> Str(<<"Broken">>), date |-> Date(5)])),
    Item("developer",
         Obj([sys |-> SysOf("d1", "t0"), name |-> Str(<<"Acme">>),
              logo |-> GoodAsset])),
    Item("developer",
         Obj([sys |-> Absent, name |-> Str(<<"Broken">>), logo |-> Absent])) }

\* the remote stores of at most n entries
RECURSIVE Stores(_)
Stores(n) ==
    IF n = 0 THEN {<< >>}
    ELSE Stores(n - 1)
         \cup {Append(st, it) : st \in {x \in Stores(n - 1) : Len(x) = n - 1},
                                it \in StoreSamples}

Credential == {EmptyStr, Str(<<"key">>)}
Configs == [space : Credential, read : Credential, cma : Credential]

SlugArgs == {Str(<<"lake-villa-1">>), Str(<<"market-news">>),
             Str(<<"nonexistent-slug">>)}

DefaultNotificationLimit == 10
LimitArgs == {1, DefaultNotificationLimit}

InitRead ==
    /\ cfg \in Configs
    /\ remote \in Stores(MaxRemote)
    /\ assets = << >>
    /\ op = [name |-> "init"]
    /\ result = None
    /\ calls = << >>
    /\ served = 0

\* a resolver call returns: its arguments, its value and its remote calls
Returns(name, args, fail, outcome) ==
    /\ served < MaxOps
    /\ served' = served + 1
    /\ op' = [name |-> name, args |-> args, fail |-> fail]
    /\ result' = outcome.ret
    /\ calls' = outcome.calls
    /\ UNCHANGED <<cfg, remote, assets>>

FetchProperties ==
    \E fail \in BOOLEAN :
        Returns("fetch_properties", None, fail, fetch_properties(fail))

FetchPropertyBySlug ==
    \E slug \in SlugArgs, fail \in BOOLEAN :
        Returns("fetch_property_by_slug", slug, fail,
                fetch_property_by_slug(slug, fail))

FetchBlogs ==
    \E fail \in BOOLEAN : Returns("fetch_blogs", None, fail, fetch_blogs(fail))

FetchBlogBySlug ==
    \E slug \in SlugArgs, fail \in BOOLEAN :
        Returns("fetch_blog_by_slug", slug, fail,
                fetch_blog_by_slug(slug, fail))

FetchNotifications ==
    \E limit \in LimitArgs, fail \in BOOLEAN :
        Returns("fetch_notifications", Num(limit), fail,
                fetch_notifications(limit, fail))

FetchDevelopers ==
    \E fail \in BOOLEAN :
        Returns("fetch_developers", None, fail, fetch_developers(fail))

SpecRead ==
    InitRead
    /\ [][\/ FetchProperties
          \/ FetchPropertyBySlug
          \/ FetchBlogs
          \/ FetchBlogBySlug
          \/ FetchNotifications
          \/ FetchDevelopers]_vars

---------------------------------------------------------------------------
\* The Sync Publisher against a remote store

Bool(b) == [t |-> "bool", v |-> b]

\* property_instance.image: a file field with a path that may be on disk
ImageAt(path, on_disk) == Obj([path |-> Str(<<path>>), on_disk |-> Bool(on_disk)])

ListingSamples == {
    \* no optional attribute, no image
    Obj([title |-> Str(<<"Plot">>), slug |-> Str(<<"plot-7">>),
         property_type |-> Str(<<"towers">>), price |-> Num(900000),
         city |-> Str(<<"P", "u", "n", "e">>), location |-> EmptyStr,
         description |-> Str(<<"a", "\n", "\n", " ", "b", " ">>),
         carpet_area |-> None, floor_number |-> Num(0), total_floors |-> None,
         possession_date |-> None, loan_approved_by |-> EmptyStr,
         image |-> None]),
    \* every optional attribute, an image on disk, no city
    Obj([title |-> Str(<<"Lake Villa">>), slug |-> Str(<<"lake-villa-1">>),
         property_type |-> Str(<<"independent_villa">>), price |-> Num(5000000),
         city |-> EmptyStr,
         location |-> Str(<<"n", "e", "a", "r", " ", "M", "u", "m", "b", "a", "i">>),
         description |-> Str(<<"s", "e", "a", " ", "v", "i", "e", "w">>),
         carpet_area |-> Num(1200), floor_number |-> Num(3),
         total_floors |-> Num(12), possession_date |-> Date(9),
         loan_approved_by |-> Str(<<"sbi">>),
         image |-> ImageAt("/media/properties/a.jpg", TRUE)]),
    \* some optional attributes, an image whose file is gone
    Obj([title |-> Str(<<"Flat">>), slug |-> Str(<<"flat-3">>),
         property_type |-> Str(<<"standalone_apartment">>), price |-> Num(0),
         city |-> Str(<<"G", "o", "a">>), location |-> EmptyStr,
         description |-> EmptyStr,
         carpet_area |-> Num(650), floor_number |-> Num(0),
         total_floors |-> Num(4), possession_date |-> None,
         loan_approved_by |-> EmptyStr,
         image |-> ImageAt("/media/properties/gone.jpg", FALSE)]),
    \* some optional attributes, no image, a blank description
    Obj([title |-> Str(<<"Shop">>), slug |-> Str(<<"shop-9">>),
         property_type |-> Str(<<"towers">>), price |-> Num(70000),
         city |-> Str(<<"D", "e", "l", "h", "i">>), location |-> EmptyStr,
         description |-> Str(<<" ", "\n", " ">>),
         carpet_area |-> None, floor_number |-> None, total_floors |-> None,
         possession_date |-> Date(9), loan_approved_by |-> Str(<<"sbi">>),
         image |-> None]) }

DeveloperRefs == {None, EmptyStr, Str(<<"d1">>)}

ImageFiles == {Str(<<"/media/properties/a.jpg">>),
               Obj([read |-> Str(<<"bytes">>), name |-> Str(<<"up.png">>),
                    content_type |-> Str(<<"image/png">>)])}

\* where an operation may fail: at any step but the pause, or nowhere
FailPoints(steps) ==
    {"none"} \cup {steps[i] : i \in {j \in 1..Len(steps) : steps[j] # "time.sleep"}}

InitSync ==
    /\ cfg \in Configs
    /\ remote = << >>
    /\ assets = << >>
    /\ op = [name |-> "init"]
    /\ result = None
    /\ calls = << >>
    /\ served = 0

\* a write-path call returns: its arguments, its value, its remote calls and
\* the remote store it leaves
Leaves(name, args, failAt, upFailAt, effect) ==
    /\ served < MaxOps
    /\ served' = served + 1
    /\ op' = [name |-> name, args |-> args, fail |-> failAt, upFail |-> upFailAt]
    /\ result' = effect.ret
    /\ calls' = effect.calls
    /\ remote' = effect.remote
    /\ assets' = effect.assets
    /\ UNCHANGED cfg

UploadImage ==
    \E image_file \in ImageFiles,
       failAt \in {FailPoint(UploadSteps, f) : f \in FailPoints(UploadSteps)} :
           Leaves("upload_image_to_contentful",
                  [image_file |-> image_file], "none", failAt,
                  upload_image_to_contentful(
                      image_file, Str(<<"Property Image">>), failAt, assets))

SyncProperty ==
    \E p \in ListingSamples, developer_id \in DeveloperRefs,
          failAt \in {FailPoint(SyncSteps, f) : f \in FailPoints(SyncSteps)} :
         \E upFailAt \in IF ImageResolvable(p)
                            /\ StepDone(SyncSteps, failAt, "cma.environments.find")
                         THEN FailPoints(UploadSteps) ELSE {"none"} :
           Leaves("sync_property_to_contentful",
                  [property_instance |-> p, developer_id |-> developer_id],
                  failAt, upFailAt,
                  sync_property_to_contentful(p, developer_id, failAt, upFailAt))

SpecSync == InitSync /\ [][UploadImage \/ SyncProperty]_vars

---------------------------------------------------------------------------
\* Claims about the Entry Parser, checked under SpecParse

Parsed(name) == op.name = name

\* an entry whose sys attribute is missing or is not a mapping
MalformedSys(entry) == ~HasAttr(entry, "sys") \/ entry.v.sys.t # "dict"

\* a location object that carries lat without lon
MalformedLocation(entry) ==
    /\ HasAttr(entry, "location")
    /\ HasAttr(entry.v.location, "lat")
    /\ ~HasAttr(entry.v.location, "lon")

\* an embedded developer whose sys attribute is not a mapping
MalformedDeveloper(entry) ==
    /\ HasAttr(entry, "developer")
    /\ HasAttr(entry.v.developer, "sys")
    /\ entry.v.developer.v.sys.t # "dict"

MalformedEntry(kind, entry) ==
    \/ MalformedSys(entry)
    \/ kind = "property" /\ (MalformedLocation(entry) \/ MalformedDeveloper(entry))

\* C3: parsing a malformed raw entry of any recognized kind (property, blog,
\* notification, developer) never raises and yields the stub with title
\* "Error" and slug "".
C3_MalformedYieldsStub ==
    /\ op.name # "input" => result # Raise
    /\ (op.name # "input" /\ MalformedEntry(op.kind, op.entry))
           => result = ErrorStub

CanonicalPropertyKeys ==
    {"id", "title", "slug", "property_type", "price", "city", "location",
     "description", "carpet_area", "floor_number", "total_floors",
     "possession_date", "loan_approved_by", "image_url", "developer",
     "created_at"}

\* a property entry that is well formed wherever a field is present: only
\* optional fields may be missing
PartialProperty(entry) ==
    /\ ~MalformedSys(entry)
    /\ HasAttr(entry, "location") =>
           HasAttr(entry.v.location, "lat") /\ HasAttr(entry.v.location, "lon")
    /\ HasAttr(entry, "developer") =>
           /\ HasAttr(entry.v.developer, "sys")
           /\ entry.v.developer.v.sys.t = "dict"
           /\ HasAttr(entry.v.developer, "name")
    /\ HasAttr(entry, "image") => HasAttr(entry.v.image, "url")

\* the value the entity must carry for a scalar field: the entry's own, or
\* the documented default
KeptOr(entry, attr, default) ==
    IF HasAttr(entry, attr) THEN entry.v[attr] ELSE default

\* C4: parsing a raw property entry in which any subset of the optional
\* fields is missing yields a full canonical entity, not the error stub:
\* each missing field has its documented default (None, or "" for
\* loan_approved_by, the default coordinate for location) and each present
\* field keeps the entry's value.
C4_OptionalFieldsDefault ==
    (Parsed("parse_property_entry") /\ PartialProperty(op.entry)) =>
        LET e == op.entry
            r == result.v
        IN  /\ result # ErrorStub
            /\ result.t = "dict"
            /\ DOMAIN r = CanonicalPropertyKeys
            /\ r.carpet_area = KeptOr(e, "carpetArea", None)
            /\ r.floor_number = KeptOr(e, "floorNumber", None)
            /\ r.total_floors = KeptOr(e, "totalNoOfFloors", None)
            /\ r.possession_date = KeptOr(e, "pocessionByDate", None)
            /\ r.loan_approved_by = KeptOr(e, "loanApprovedBy", EmptyStr)
            /\ IF HasAttr(e, "image")
               THEN r.image_url = Str(<<"https:">> \o e.v.image.v.url.v)
               ELSE r.image_url = None
            /\ IF HasAttr(e, "developer")
               THEN r.developer = Dict([id |-> e.v.developer.v.sys.v.id,
                                        name |-> e.v.developer.v.name])
               ELSE r.developer = None
            /\ IF HasAttr(e, "location")
               THEN r.location = Dict([lat |-> e.v.location.v.lat,
                                       lon |-> e.v.location.v.lon])
               ELSE r.location = Dict([lat |-> Num(DefaultLat),
                                       lon |-> Num(DefaultLon)])

\* a parsed property entry that lacks carpetArea, image and developer but
\* carries floorNumber and a location
C4_Witness ==
    /\ Parsed("parse_property_entry")
    /\ PartialProperty(op.entry)
    /\ ~HasAttr(op.entry, "carpetArea")
    /\ ~HasAttr(op.entry, "image")
    /\ ~HasAttr(op.entry, "developer")
    /\ HasAttr(op.entry, "floorNumber")
    /\ HasAttr(op.entry, "location")
    /\ result.v.carpet_area = None
    /\ result.v.floor_number = Num(0)

\* an entry that supplies no usable location: none at all, or a falsy one
NoUsableLocation(entry) == ~Truthy(GetAttr(entry, "location", None))

\* C5: every property entity the parser produces, for any raw entry, carries
\* a coordinate pair whose lat and lon are present and not null, the default
\* pair when the entry supplies no usable location.
C5_CoordinatesAlwaysPresent ==
    Parsed("parse_property_entry") =>
        /\ HasKey(result, "location")
        /\ HasKey(result.v.location, "lat")
        /\ HasKey(result.v.location, "lon")
        /\ result.v.location.v.lat # None
        /\ result.v.location.v.lon # None
        /\ NoUsableLocation(op.entry) =>
               result.v.location = Dict([lat |-> Num(DefaultLat),
                                         lon |-> Num(DefaultLon)])

---------------------------------------------------------------------------
\* Claims about the Content Resolver, checked under SpecRead

ListOps == {"fetch_properties", "fetch_blogs", "fetch_notifications",
            "fetch_developers"}
SlugOps == {"fetch_property_by_slug", "fetch_blog_by_slug"}

KindOf(name) ==
    CASE name \in {"fetch_properties", "fetch_property_by_slug"} -> "property"
      [] name \in {"fetch_blogs", "fetch_blog_by_slug"} -> "blogPost"
      [] name = "fetch_notifications" -> "notification"
      [] OTHER -> "developer"

ReadConfigured == cfg.space # EmptyStr /\ cfg.read # EmptyStr

\* C1: no resolver operation raises to its caller; when the remote query
\* fails, a list operation returns the empty list and a single-entity
\* operation returns None.
C1_ResolverNeverRaises ==
    /\ op.name \in ListOps \cup SlugOps => result # Raise
    /\ (op.name \in ListOps /\ op.fail) => result = List(<< >>)
    /\ (op.name \in SlugOps /\ op.fail) => result = None

\* a list operation and a by-slug operation whose remote query failed, over
\* a store that holds entries of their kind
C1_Witness ==
    /\ op.name \in ListOps \cup SlugOps
    /\ ReadConfigured
    /\ op.fail
    /\ Len(calls) = 1
    /\ \E i \in 1..Len(remote) : remote[i].kind = KindOf(op.name)
    /\ result \in {List(<< >>), None}

\* C2: in every list operation one malformed remote record does not abort
\* the collection: the result holds one entity per raw entry the query
\* returned, in the same order, a stub where the entry is malformed and the
\* normal parse of every sibling.
C2_MalformedDoesNotAbort ==
    (op.name \in ListOps /\ ReadConfigured /\ ~op.fail) =>
        LET raws == Entries(calls[1].arg)
        IN  /\ result.t = "list"
            /\ Len(result.v) = Len(raws)
            /\ \A i \in 1..Len(raws) :
                   IF MalformedEntry(KindOf(op.name), raws[i])
                   THEN result.v[i] \in {ErrorStub, NotificationErrorStub}
                   ELSE /\ HasKey(result.v[i], "id")
                        /\ result.v[i].v.id = raws[i].v.sys.v.id

\* the positions in the store of the published entries of a kind whose slug
\* is the one asked for
Matches(kind, slug) ==
    {i \in 1..Len(remote) :
        /\ remote[i].kind = kind
        /\ remote[i].published
        /\ HasAttr(remote[i].raw, "slug")
        /\ remote[i].raw.v.slug = slug}

\* C6: fetch_property_by_slug and fetch_blog_by_slug issue one limit-1
\* exact-match query on the slug, return None when it yields nothing, and
\* otherwise return the parse of the first entry it yields.
C6_BySlugAbsentOrFirst ==
    (op.name \in SlugOps /\ ReadConfigured) =>
        /\ Len(calls) = 1
        /\ calls[1].api = "cda.entries"
        /\ calls[1].arg.content_type = KindOf(op.name)
        /\ calls[1].arg.slug = op.args
        /\ calls[1].arg.limit = 1
        /\ ~op.fail =>
               LET hits == Matches(KindOf(op.name), op.args)
                   answer == Entries(calls[1].arg)
               IN  /\ hits = {} <=> result = None
                   /\ hits # {} =>
                          /\ Len(answer) = 1
                          /\ \E i \in hits : answer[1] = remote[i].raw
                          /\ result =
                                 IF op.name = "fetch_property_by_slug"
                                 THEN parse_property_entry(answer[1])
                                 ELSE parse_blog_entry(answer[1])

\* a by-slug lookup of a slug no entry has, in a store that holds entries
\* of the kind asked for
C6_Witness ==
    /\ op.name = "fetch_property_by_slug"
    /\ ReadConfigured
    /\ ~op.fail
    /\ op.args = Str(<<"nonexistent-slug">>)
    /\ \E i \in 1..Len(remote) : remote[i].kind = "property"
    /\ result = None

---------------------------------------------------------------------------
\* Claims about the Sync Publisher, checked under SpecSync

WriteOps == {"upload_image_to_contentful", "sync_property_to_contentful"}

Synced == op.name = "sync_property_to_contentful"

\* the calls of a given kind the last operation issued
CallsTo(api) == SelectSeq(calls, LAMBDA c : c.api = api)

\* the keys of a field set
FieldKeys(fields) == {k \in DOMAIN fields.v : fields.v[k] # Absent}

\* the field set handed to entries().create by the last operation
SentFields == CallsTo("cma.entries.create")[1].arg

\* C7: when a credential of the scope an operation needs is missing (space
\* id or read token for the resolver; space id or management token for
\* upload_image_to_contentful and sync_property_to_contentful) the operation
\* returns empty or absent without issuing any remote call.
C7_NotConfiguredNoRemoteCall ==
    /\ (op.name \in ListOps \cup SlugOps /\ ~ReadConfigured) =>
           calls = << >> /\ result \in {List(<< >>), None}
    /\ (op.name \in WriteOps /\ (cfg.space = EmptyStr \/ cfg.cma = EmptyStr)) =>
           calls = << >> /\ result = None

RequiredKeys ==
    {"title", "slug", "propertyType", "price", "city", "description", "location"}

\* a listing published with no image and no developer reference
PublishedPlain ==
    /\ Synced
    /\ result # None
    /\ ~Truthy(op.args.property_instance.v.image)
    /\ ~Truthy(op.args.developer_id)

\* C8, as the spec states it: a listing published with no image and no
\* developer reference yields an entry whose field set is exactly title,
\* slug, propertyType, price, city, description, location.
C8_ExactlyRequiredFields ==
    PublishedPlain => FieldKeys(SentFields) = RequiredKeys

\* the optional keys whose listing attribute is truthy
TruthyOptionalKeys(p) ==
    {k \in {"carpetArea", "floorNumber", "totalNoOfFloors", "pocessionByDate",
            "loanApprovedBy"} :
        Truthy(p.v[CASE k = "carpetArea" -> "carpet_area"
                     [] k = "floorNumber" -> "floor_number"
                     [] k = "totalNoOfFloors" -> "total_floors"
                     [] k = "pocessionByDate" -> "possession_date"
                     [] OTHER -> "loan_approved_by"])}

\* C8, amended: a listing published with no image and no developer
\* reference yields an entry whose field set is title, slug, propertyType,
\* price, city, description, location and those of carpetArea, floorNumber,
\* totalNoOfFloors, pocessionByDate, loanApprovedBy whose attribute is
\* truthy; description is the rich-text encoding of the listing's
\* description, location the geocoded coordinate; image and developer are
\* absent.
C8_RequiredPlusTruthyOptionals ==
    PublishedPlain =>
        LET p == op.args.property_instance
            sent == SentFields
        IN  /\ FieldKeys(sent) = RequiredKeys \cup TruthyOptionalKeys(p)
            /\ "image" \notin FieldKeys(sent)
            /\ "developer" \notin FieldKeys(sent)
            /\ sent.v.description = Localized(build_rich_text(p.v.description))
            /\ sent.v.location =
                   Localized(geocode_location(PyOr(p.v.city, p.v.location)))
            /\ remote[Len(remote)].published
            /\ ~HasAttr(remote[Len(remote)].raw, "image")
            /\ ~HasAttr(remote[Len(remote)].raw, "developer")

\* a published listing with no image, no developer reference and a truthy
\* optional attribute
C8_Witness ==
    /\ PublishedPlain
    /\ TruthyOptionalKeys(op.args.property_instance) # {}
    /\ Len(remote) = 1

\* the image-upload sub-step of the last sync ran and failed
UploadFailed ==
    /\ Synced
    /\ Truthy(get_management_client)
    /\ ImageResolvable(op.args.property_instance)
    /\ op.fail \notin {"cma.spaces.find", "cma.environments.find"}
    /\ op.upFail # "none"

\* C9: a failure of the image-upload sub-step is not fatal: the entry is
\* still created without an image key and, unless entry creation or
\* publication itself fails, it is published and its id is returned.
C9_UploadFailureNonFatal ==
    UploadFailed =>
        /\ Len(CallsTo("cma.entries.create")) = 1
        /\ "image" \notin FieldKeys(SentFields)
        /\ result = None <=> op.fail # "none"
        /\ op.fail = "none" =>
               /\ remote[Len(remote)].published
               /\ remote[Len(remote)].raw.v.sys.v.id = result
               /\ ~HasAttr(remote[Len(remote)].raw, "image")

\* a sync whose upload failed while processing the asset and whose entry
\* was published all the same
C9_Witness ==
    /\ UploadFailed
    /\ op.upFail = "cma.asset.process"
    /\ op.fail = "none"
    /\ result # None
    /\ Len(remote) = 1

\* C10: sync_property_to_contentful returns an entry id only if that call
\* created and published the entry; a failure of entry creation or of
\* publication is returned as None and never raised.
C10_IdOnlyIfCreatedAndPublished ==
    [][(op'.name = "sync_property_to_contentful") =>
          /\ result' # Raise
          /\ result' # None =>
                 /\ Len(remote') = Len(remote) + 1
                 /\ remote'[Len(remote')].kind = "property"
                 /\ remote'[Len(remote')].published
                 /\ remote'[Len(remote')].raw.v.sys.v.id = result'
                 /\ Len(SelectSeq(calls', LAMBDA c : c.api = "cma.entries.create")) = 1
                 /\ Len(SelectSeq(calls', LAMBDA c : c.api = "cma.entry.publish")) = 1
                 /\ op'.fail = "none"
          /\ op'.fail \in {"cma.entries.create", "cma.entry.publish"} =>
                 result' = None
      ]_vars

\* a sync whose publish stage failed: None is returned and a draft is left
C10_Witness ==
    /\ Synced
    /\ Truthy(get_management_client)
    /\ op.fail = "cma.entry.publish"
    /\ result = None
    /\ Len(remote) = 1
    /\ ~remote[1].published

---------------------------------------------------------------------------
\* The Geocoder and the Rich-Text Codec on their own

\* how many pieces a location text is put together from
MaxPieces == 3

\* how many symbols a description text has
MaxTextLen == 4

RECURSIVE Flatten(_)
\* the pieces of a text, written one after the other
Flatten(pieces) ==
    IF Len(pieces) = 0 THEN << >>
    ELSE pieces[1] \o Flatten(Tail(pieces))

\* the arguments of geocode_location: property_instance.city or .location,
\* put together from city names in several cases, a truncated city name
\* and filler
GeoInputs ==
    LET pieces == {<<"P", "u", "n", "e">>, <<"m", "u", "m", "b", "a", "i">>,
                   <<"D", "E", "L", "H", "I">>,
                   <<"h", "y", "d", "e", "r", "a", "b", "a", "d">>,
                   <<"p", "u", "n">>, <<" ">>, <<"x">>}
    IN  {None}
        \cup {Str(Flatten(ps)) :
                 ps \in UNION {[1..n -> pieces] : n \in 0..MaxPieces}}

\* the arguments of build_rich_text: property_instance.description
EncodeInputs ==
    LET symbols == {"a", "b", " ", "\n"}
    IN  {None}
        \cup {Str(t) : t \in UNION {[1..n -> symbols] : n \in 0..MaxTextLen}}

\* the arguments of parse_rich_text: what entry.description may hold
DecodeInputs ==
    LET TextNode(value) == Dict([nodeType |-> Str(<<"text">>), value |-> value])
        Node(nodeType, content) ==
            Dict([nodeType |-> Str(<<nodeType>>), content |-> content])
    IN
    RichTextShapes
    \cup {None, EmptyStr, Num(5), List(<<Num(1)>>),
          Dict([nodeType |-> Str(<<"document">>), content |-> Absent]),
          Node("document", Str(<<"a", "b">>)),
          Node("document", List(<< >>)),
          Node("document", List(<<Node("heading-1", List(<<TextNode(Str(<<"a">>))>>))>>)),
          Node("document", List(<<Node("paragraph", List(<<Str(<<"a">>)>>))>>)),
          Node("document", List(<<Node("paragraph", List(<<TextNode(None)>>))>>)),
          Node("document", List(<<Node("paragraph", List(<<TextNode(Absent)>>))>>)),
          Node("document", List(<<Node("paragraph", Absent)>>)),
          Node("document", List(<<Num(7)>>)),
          Node("document",
               List(<<Node("paragraph",
                           List(<<TextNode(Str(<<"a">>)),
                                  Node("hyperlink", List(<< >>))>>)),
                      Node("paragraph", List(<<TextNode(Str(<<"b">>))>>))>>)),
          Obj([content |-> List(<<Obj([content |->
                                   List(<<Obj([value |-> Str(<<"a">>)]),
                                          Obj([value |-> Absent])>>)])>>)]),
          Obj([content |-> List(<<Obj([content |-> Num(3)])>>)]),
          Obj([content |-> Absent])}

InitText ==
    /\ cfg = [space |-> EmptyStr, read |-> EmptyStr, cma |-> EmptyStr]
    /\ remote = << >>
    /\ assets = << >>
    /\ op \in [name : {"input"}, kind : {"geocode"}, arg : GeoInputs]
              \cup [name : {"input"}, kind : {"encode"}, arg : EncodeInputs]
              \cup [name : {"input"}, kind : {"decode"}, arg : DecodeInputs]
    /\ result = None
    /\ calls = << >>
    /\ served = 0

Geocode ==
    /\ op.name = "input" /\ op.kind = "geocode"
    /\ op' = [op EXCEPT !.name = "geocode_location"]
    /\ result' = geocode_location(op.arg)
    /\ served' = served + 1
    /\ UNCHANGED <<cfg, remote, assets, calls>>

Encode ==
    /\ op.name = "input" /\ op.kind = "encode"
    /\ op' = [op EXCEPT !.name = "build_rich_text"]
    /\ result' = build_rich_text(op.arg)
    /\ served' = served + 1
    /\ UNCHANGED <<cfg, remote, assets, calls>>

Decode ==
    /\ op.name = "input" /\ op.kind = "decode"
    /\ op' = [op EXCEPT !.name = "parse_rich_text"]
    /\ result' = parse_rich_text(op.arg)
    /\ served' = served + 1
    /\ UNCHANGED <<cfg, remote, assets, calls>>

\* parse_rich_text applied to the document build_rich_text returned; the
\* text that was encoded stays in op.arg
DecodeEncoded ==
    /\ op.name = "build_rich_text"
    /\ op' = [op EXCEPT !.name = "parse_rich_text", !.kind = "roundtrip"]
    /\ result' = parse_rich_text(result)
    /\ served' = served + 1
    /\ UNCHANGED <<cfg, remote, assets, calls>>

SpecText == InitText /\ [][Geocode \/ Encode \/ Decode \/ DecodeEncoded]_vars

---------------------------------------------------------------------------
\* Claims about the Geocoder and the Rich-Text Codec, checked under SpecText

\* the coordinate pair of the i-th city of the table
CityCoordinate(i) ==
    Dict([lat |-> Num(CITY_COORDS[i].lat), lon |-> Num(CITY_COORDS[i].lon)])

DefaultCoordinate == Dict([lat |-> Num(173850), lon |-> Num(784867)])

\* the i-th city's name occurs in the lower-cased text
Names(text, i) == Contains(Lower(text.v), CITY_COORDS[i].city)

\* C11: geocode_location never fails; it returns the coordinate of the known
\* city whose name occurs in the lower-cased text, the one declared first
\* in the table when several occur, wherever they occur; for empty, None
\* or no-match input it returns the default coordinate (17.385, 78.4867).
C11_GeocodeFirstDeclaredCity ==
    op.name = "geocode_location" =>
        /\ result # Raise
        /\ (op.arg = None \/ op.arg = EmptyStr) => result = DefaultCoordinate
        /\ Truthy(op.arg) =>
               /\ \A i \in 1..Len(CITY_COORDS) :
                      (Names(op.arg, i) /\ \A j \in 1..(i - 1) : ~Names(op.arg, j))
                          => result = CityCoordinate(i)
               /\ (\A i \in 1..Len(CITY_COORDS) : ~Names(op.arg, i))
                      => result = DefaultCoordinate

\* a text that names Pune before Mumbai, geocoded to Mumbai, which the
\* table declares first
C11_Witness ==
    /\ op.name = "geocode_location"
    /\ op.arg = Str(<<"P", "u", "n", "e", " ", "m", "u", "m", "b", "a", "i">>)
    /\ result = Dict([lat |-> Num(190760), lon |-> Num(728777)])

\* a text came back from parse_rich_text(build_rich_text(text))
RoundTrip ==
    /\ op.name = "parse_rich_text"
    /\ op.kind = "roundtrip"
    /\ op.arg.t = "str"

\* no blank line, and no line starts or ends with whitespace
CleanText(s) ==
    /\ Len(s) > 0
    /\ s[1] \notin Whitespace
    /\ s[Len(s)] \notin Whitespace
    /\ \A i \in 2..(Len(s) - 1) :
           s[i] = "\n" => s[i - 1] \notin Whitespace /\ s[i + 1] \notin Whitespace

\* C12: for every plain text with no blank line and no leading or trailing
\* whitespace on any line, parse_rich_text(build_rich_text(text)) is the
\* text itself.
C12_RoundTripExact ==
    (RoundTrip /\ CleanText(op.arg.v)) => result = op.arg

\* a clean text of two lines that came back unchanged
C12_Witness ==
    /\ RoundTrip
    /\ op.arg = Str(<<"a", "\n", "b">>)
    /\ result = op.arg

\* the number of lines of a text
LineCount(s) == 1 + Cardinality({i \in 1..Len(s) : s[i] = "\n"})

\* the line of s that starts at position i (i = 1 or after a line break)
\* holds nothing but whitespace
BlankLineAt(s, i) ==
    /\ i = 1 \/ s[i - 1] = "\n"
    /\ \A k \in i..Len(s) :
           (\A j \in i..k : s[j] # "\n") => s[k] \in Whitespace

HasBlankLine(s) == \E i \in 1..(Len(s) + 1) : BlankLineAt(s, i)

\* C13, as the spec states it: for every plain text with at least one blank
\* line, parse_rich_text(build_rich_text(text)) has strictly fewer lines
\* than the text.
C13_BlankLinesLoseLines ==
    (RoundTrip /\ HasBlankLine(op.arg.v)) =>
        /\ result.t = "str"
        /\ LineCount(result.v) < LineCount(op.arg.v)

\* C13, amended: for every plain text of at least two lines with at least
\* one blank line, parse_rich_text(build_rich_text(text)) has strictly fewer
\* lines than the text; a text that is one blank line comes back as one line
\* of placeholder text.
C13_BlankLinesLoseLinesOfSeveral ==
    (RoundTrip /\ HasBlankLine(op.arg.v)) =>
        /\ result.t = "str"
        /\ LineCount(op.arg.v) >= 2 => LineCount(result.v) < LineCount(op.arg.v)
        /\ LineCount(op.arg.v) = 1 =>
               /\ LineCount(result.v) = 1
               /\ result \in {Str(<<"No description provided.">>),
                              Str(<<"No description">>)}

\* a text with a blank line between two lines came back as two lines
C13_Witness ==
    /\ RoundTrip
    /\ op.arg = Str(<<"a", "\n", "\n", "b">>)
    /\ result = Str(<<"a", "\n", "b">>)

\* the document of one paragraph holding one text node with the value
PlaceholderDocument(value) ==
    Dict([nodeType |-> Str(<<"document">>),
          data |-> Dict([none |-> Absent]),
          content |-> List(<<
              Dict([nodeType |-> Str(<<"paragraph">>),
                    data |-> Dict([none |-> Absent]),
                    content |-> List(<<
                        Dict([nodeType |-> Str(<<"text">>),
                              value |-> Str(<<value>>),
                              marks |-> List(<< >>),
                              data |-> Dict([none |-> Absent])]) >>)]) >>)])

\* C14: build_rich_text applied to empty input ("" or None) or to
\* whitespace-only input produces a document of exactly one paragraph with
\* exactly one text node whose value is "No description provided.".
C14_EmptyInputGivesFallback ==
    (/\ op.name = "build_rich_text"
     /\ \/ ~Truthy(op.arg)
        \/ \A i \in 1..Len(op.arg.v) : op.arg.v[i] \in Whitespace) =>
        result = PlaceholderDocument("No description provided.")

\* a text node the decoder reads: a dictionary of node type text with a
\* string value, or an object with a string value
ReadableText(child) ==
    \/ /\ child.t = "dict"
       /\ DictGet(child, "nodeType", None) = Str(<<"text">>)
       /\ HasKey(child, "value")
       /\ child.v.value.t = "str"
    \/ /\ HasAttr(child, "value")
       /\ child.v.value.t = "str"

\* a paragraph the decoder reads: a node with a list of readable text nodes
ReadableParagraph(node) ==
    /\ \/ node.t = "dict" /\ DictGet(node, "nodeType", None) = Str(<<"paragraph">>)
       \/ node.t = "obj"
    /\ HasKey(node, "content") \/ HasAttr(node, "content")
    /\ node.v.content.t = "list"
    /\ \A i \in 1..Len(node.v.content.v) : ReadableText(node.v.content.v[i])

\* an input of the shape parse_rich_text is written for: a string, or a
\* document with a list of readable paragraphs
Recognized(x) ==
    \/ x.t = "str"
    \/ /\ HasKey(x, "content") \/ HasAttr(x, "content")
       /\ x.v.content.t = "list"
       /\ \A i \in 1..Len(x.v.content.v) : ReadableParagraph(x.v.content.v[i])

\* C15: parse_rich_text never raises, and for every non-empty input of an
\* unrecognized or malformed shape (not a string, no content list, nodes or
\* children not of the paragraph/text shape) it returns the empty string.
C15_MalformedGivesEmpty ==
    (op.name = "parse_rich_text" /\ op.kind = "decode") =>
        /\ result # Raise
        /\ (Truthy(op.arg) /\ ~Recognized(op.arg)) => result = EmptyStr

---------------------------------------------------------------------------
\* Further claims about the Sync Publisher, checked under SpecSync

Uploaded == op.name = "upload_image_to_contentful"

\* the names of the calls the last operation issued, in order
CallNames == [i \in 1..Len(calls) |-> calls[i].api]

\* the order the spec gives the steps of an upload
ClaimedUploadOrder ==
    <<"cma.uploads.create", "cma.assets.create", "cma.asset.process",
      "time.sleep", "cma.assets.find", "cma.asset.publish">>

\* the calls of the last operation after the lookup of space and environment
AfterLookup == SubSeq(CallNames, 3, Len(CallNames))

IsPrefix(s, t) == Len(s) <= Len(t) /\ s = SubSeq(t, 1, Len(s))

\* C17: upload_image_to_contentful performs its steps in the fixed order
\* create-upload, create-asset, request-processing, wait, re-fetch asset,
\* publish asset; it returns an asset id only after the publish step
\* succeeded; a failure of any step yields None, is not raised, and no later
\* step is executed.
C17_UploadStepsInOrder ==
    Uploaded =>
        /\ result # Raise
        /\ IsPrefix(AfterLookup, ClaimedUploadOrder)
        /\ result # None =>
               /\ AfterLookup = ClaimedUploadOrder
               /\ op.upFail = "none"
               /\ Len(assets) >= 1
               /\ assets[Len(assets)].id = result
               /\ assets[Len(assets)].published
        /\ ~Truthy(get_management_client) => (calls = << >> /\ result = None)
        /\ (Truthy(get_management_client) /\ op.upFail # "none") =>
               /\ result = None
               /\ CallNames[1] = "cma.spaces.find"
               /\ Len(calls) >= 2 => CallNames[2] = "cma.environments.find"
               /\ op.upFail # "local.read" =>
                      CallNames[Len(calls)] = op.upFail
               /\ op.upFail = "local.read" => Len(calls) = 2

\* an upload whose processing request failed: the pause, the re-fetch and
\* the publication did not run, None came back
C17_Witness ==
    /\ Uploaded
    /\ op.upFail = "cma.asset.process"
    /\ AfterLookup = <<"cma.uploads.create", "cma.assets.create",
                       "cma.asset.process">>
    /\ result = None

\* the listing attribute behind an optional key
AttributeOf(key) ==
    CASE key = "carpetArea" -> "carpet_area"
      [] key = "floorNumber" -> "floor_number"
      [] key = "totalNoOfFloors" -> "total_floors"
      [] key = "pocessionByDate" -> "possession_date"
      [] key = "loanApprovedBy" -> "loan_approved_by"

OptionalKeys ==
    {"carpetArea", "floorNumber", "totalNoOfFloors", "pocessionByDate",
     "loanApprovedBy"}

\* the last operation was a sync that got as far as building the field set
BuiltFields == Synced /\ Len(CallsTo("cma.entries.create")) = 1

\* a value of exactly zero, an empty string or null
ZeroEmptyOrNull(value) == value \in {Num(0), EmptyStr, None}

\* C18: in the field set sync_property_to_contentful builds, each of
\* carpetArea, floorNumber, totalNoOfFloors, pocessionByDate, loanApprovedBy
\* is present if and only if the listing's attribute is truthy (zero, the
\* empty string and null count as absent), and developer is present if and
\* only if a truthy developer reference was supplied.
C18_OptionalKeysIffTruthy ==
    BuiltFields =>
        LET p == op.args.property_instance
            keys == FieldKeys(SentFields)
        IN  /\ \A k \in OptionalKeys :
                   /\ k \in keys <=> Truthy(p.v[AttributeOf(k)])
                   /\ ZeroEmptyOrNull(p.v[AttributeOf(k)]) => k \notin keys
            /\ "developer" \in keys <=> Truthy(op.args.developer_id)
            /\ ZeroEmptyOrNull(op.args.developer_id) => "developer" \notin keys

\* a sync of a listing on floor zero with a carpet area and an empty
\* developer reference: carpetArea is sent, floorNumber and developer are not
C18_Witness ==
    /\ BuiltFields
    /\ op.args.property_instance.v.floor_number = Num(0)
    /\ op.args.property_instance.v.carpet_area = Num(650)
    /\ op.args.developer_id = EmptyStr
    /\ "carpetArea" \in FieldKeys(SentFields)
    /\ "floorNumber" \notin FieldKeys(SentFields)
    /\ "developer" \notin FieldKeys(SentFields)

\* C20: whenever sync_property_to_contentful returns None, that call has
\* left the remote store as it was: no property entry, published or draft,
\* and no asset created by the call remains.
C20_FailureLeavesStoreUnchanged ==
    [][(op'.name = "sync_property_to_contentful" /\ result' = None) =>
          (remote' = remote /\ assets' = assets)]_vars

---------------------------------------------------------------------------
\* Listings published one after the other and then read back

\* how many calls one behaviour makes
MaxCalls == 3

InitStore ==
    /\ cfg = [space |-> Str(<<"key">>), read |-> Str(<<"key">>),
              cma |-> Str(<<"key">>)]
    /\ remote = << >>
    /\ assets = << >>
    /\ op = [name |-> "init"]
    /\ result = None
    /\ calls = << >>
    /\ served = 0

\* one more call of sync_property_to_contentful, on any listing, also one
\* that was published before
PublishListing ==
    \E p \in ListingSamples, failAt \in {"none", "cma.entry.publish"} :
        LET effect == sync_property_to_contentful(p, None, failAt, "none")
        IN  /\ served < MaxCalls
            /\ served' = served + 1
            /\ op' = [name |-> "sync_property_to_contentful",
                      args |-> [property_instance |-> p, developer_id |-> None],
                      fail |-> failAt, upFail |-> "none"]
            /\ result' = effect.ret
            /\ calls' = effect.calls
            /\ remote' = effect.remote
            /\ assets' = effect.assets
            /\ UNCHANGED cfg

\* one call of fetch_properties on the store as it is
ListProperties ==
    \E fail \in BOOLEAN :
        LET outcome == fetch_properties(fail)
        IN  /\ served < MaxCalls
            /\ served' = served + 1
            /\ op' = [name |-> "fetch_properties", args |-> None, fail |-> fail]
            /\ result' = outcome.ret
            /\ calls' = outcome.calls
            /\ UNCHANGED <<cfg, remote, assets>>

SpecStore == InitStore /\ [][PublishListing \/ ListProperties]_vars

---------------------------------------------------------------------------
\* Claims about publishing and reading back, checked under SpecStore

\* C19: after any sequence of sync_property_to_contentful calls, publishing
\* the same listing more than once included, the property entities
\* fetch_properties returns have pairwise distinct, non-empty slugs.
C19_SlugsDistinctAtReadTime ==
    (op.name = "fetch_properties" /\ result.t = "list") =>
        /\ \A i \in 1..Len(result.v) :
               /\ HasKey(result.v[i], "slug")
               /\ result.v[i].v.slug # EmptyStr
        /\ \A i, j \in 1..Len(result.v) :
               i # j => result.v[i].v.slug # result.v[j].v.slug

---------------------------------------------------------------------------
\* The post_property view of core/views.py

\* the names core/contentful_service.py defines; the view reaches the module
\* as cf
ServiceNames ==
    {"get_delivery_client", "fetch_properties", "fetch_property_by_slug",
     "fetch_blogs", "fetch_blog_by_slug", "fetch_notifications",
     "fetch_developers", "get_asset_url", "parse_rich_text",
     "parse_property_entry", "parse_blog_entry", "parse_notification_entry",
     "get_management_client", "geocode_location", "build_rich_text",
     "upload_image_to_contentful", "sync_property_to_contentful"}

\* cf.name : AttributeError when the module defines no such name
ModuleAttr(name) == IF name \in ServiceNames THEN Str(<<name>>) ELSE Raise

DigitSymbols == <<"0", "1", "2", "3", "4", "5", "6", "7", "8", "9">>

RECURSIVE DecimalValue(_)
DecimalValue(s) ==
    IF Len(s) = 0 THEN 0
    ELSE 10 * DecimalValue(SubSeq(s, 1, Len(s) - 1))
         + (CHOOSE i \in 1..10 : DigitSymbols[i] = s[Len(s)]) - 1

\* int(x) : ValueError when a text is not a number
PyInt(x) ==
    IF x.t = "int" THEN x
    ELSE IF /\ x.t = "str"
            /\ Len(x.v) > 0
            /\ \A i \in 1..Len(x.v) : \E d \in 1..10 : DigitSymbols[d] = x.v[i]
    THEN Num(DecimalValue(x.v))
    ELSE Raise

\* what the view hands back: the response (Raise when an exception leaves
\* the view), the messages it queued, the entry id it got (Absent when the
\* name was never bound) and the calls it issued
ViewOutcome(response, queued, entry_id, issued) ==
    [response |-> response, messages |-> queued, entry_id |-> entry_id,
     calls |-> issued]

\* the tail of the view: the developers are fetched and the form rendered
RenderForm(queued, entry_id, issued, fail) ==
    LET developers == fetch_developers(fail)
    IN  ViewOutcome([kind |-> "render",
                     template |-> "core/post_property.html",
                     developers |-> developers.ret],
                    queued, entry_id, issued \o developers.calls)

\* the keyword arguments of the submission; a number is read as
\* int(request.POST.get(name, default) or default)
SubmissionArgs(post, files) ==
    LET IntField(form, name, default) ==
            PyInt(PyOr(DictGet(form, name, Num(default)), Num(default)))
    IN
    Dict([title |-> DictGet(post, "title", EmptyStr),
          property_type |-> DictGet(post, "property_type", Str(<<"apartment">>)),
          city |-> DictGet(post, "city", EmptyStr),
          location |-> DictGet(post, "location", EmptyStr),
          price |-> IntField(post, "price", 0),
          carpet_area |-> IntField(post, "carpet_area", 0),
          floor_number |-> IntField(post, "floor_number", 0),
          total_floors |-> IntField(post, "total_floors", 1),
          possession_date |-> DictGet(post, "possession_date", EmptyStr),
          loan_approved_by |-> DictGet(post, "loan_approved_by", EmptyStr),
          description |->
              Str(DictGet(post, "description", EmptyStr).v
                  \o <<"\n", "\n", "Contact: ">>
                  \o DictGet(post, "contact_name", EmptyStr).v
                  \o <<" (">> \o DictGet(post, "contact_phone", EmptyStr).v
                  \o <<")">>),
          developer_id |-> DictGet(post, "developer_id", EmptyStr),
          image |-> DictGet(files, "image", None)])

\* cf.submit_property_to_contentful(**kwargs): the lookup of the name comes
\* first; no function of the module takes these keyword arguments, so a
\* call of a name the module does define raises TypeError
SubmitProperty(kwargs) ==
    LET fn == ModuleAttr("submit_property_to_contentful")
    IN  IF fn = Raise THEN Effect(Raise, << >>, remote, assets)
        ELSE Effect(Raise, <<Call("cf.submit_property_to_contentful", kwargs)>>,
                    remote, assets)

\* send_mail(..., fail_silently=True) runs inside try/except: nothing
\* reaches the view whether the mail goes out or not
post_property(request, fail) ==
    LET Message(level, text) == [level |-> level, text |-> text]
        SendMail(id) == <<Call("send_mail", id)>>
    IN
    IF request.method # "POST" THEN RenderForm(<< >>, Absent, << >>, fail)
    ELSE LET post == request.POST
             kwargs == SubmissionArgs(post, request.FILES)
             numbers == {kwargs.v.price, kwargs.v.carpet_area,
                         kwargs.v.floor_number, kwargs.v.total_floors}
         IN  IF Raise \in numbers
             THEN ViewOutcome(Raise, << >>, Absent, << >>)
             ELSE IF \/ ~Truthy(kwargs.v.title)
                     \/ ~Truthy(DictGet(post, "contact_name", EmptyStr))
                     \/ ~Truthy(DictGet(post, "contact_email", EmptyStr))
             THEN RenderForm(
                      <<Message("error", "Please fill in all required fields.")>>,
                      Absent, << >>, fail)
             ELSE LET submitted == SubmitProperty(kwargs)
                      entry_id == submitted.ret
                  IN  IF entry_id = Raise
                      THEN RenderForm(<<Message("error", "Error: AttributeError")>>,
                                      Absent, submitted.calls, fail)
                      ELSE IF Truthy(entry_id)
                      THEN ViewOutcome(
                               [kind |-> "redirect", to |-> "home"],
                               <<Message("success",
                                         "Property submitted successfully!")>>,
                               entry_id,
                               submitted.calls \o SendMail(entry_id))
                      ELSE RenderForm(
                               <<Message("error",
                                  "Failed to submit property. Please try again.")>>,
                               entry_id, submitted.calls, fail)

\* the forms a browser may post
PostedForms ==
    {Dict([title |-> f.title, contact_name |-> f.contact_name,
           contact_email |-> f.contact_email, price |-> f.price,
           carpet_area |-> f.carpet_area, floor_number |-> Absent,
           total_floors |-> Absent, property_type |-> Absent,
           city |-> Str(<<"P", "u", "n", "e">>), location |-> Absent,
           possession_date |-> Absent, loan_approved_by |-> Absent,
           description |-> Str(<<"n", "i", "c", "e">>),
           developer_id |-> Absent, contact_phone |-> Str(<<"9", "8">>)]) :
       f \in [title : {Absent, EmptyStr, Str(<<"V", "i", "l", "l", "a">>)},
              contact_name : {EmptyStr, Str(<<"A", "s", "h", "a">>)},
              contact_email : {EmptyStr, Str(<<"a", "@", "x", ".", "i", "n">>)},
              price : {Absent, EmptyStr, Str(<<"1", "2", "0", "0">>),
                       Str(<<"a", "b", "c">>)},
              carpet_area : {Absent, Str(<<"6", "5", "0">>)}]}

Requests ==
    {[method |-> "GET", POST |-> Dict([none |-> Absent]),
      FILES |-> Dict([image |-> Absent])]}
    \cup [method : {"POST"}, POST : PostedForms,
          FILES : {Dict([image |-> Absent]),
                   Dict([image |-> Obj([read |-> Str(<<"bytes">>),
                                        name |-> Str(<<"up.png">>),
                                        content_type |-> Str(<<"image/png">>)])])}]

InitView ==
    /\ cfg \in {c \in Configs : c.space = c.read /\ c.space = c.cma}
    /\ remote \in Stores(1)
    /\ assets = << >>
    /\ op = [name |-> "init"]
    /\ result = None
    /\ calls = << >>
    /\ served = 0

\* one request served by the view
PostProperty ==
    \E request \in Requests, fail \in BOOLEAN :
        LET outcome == post_property(request, fail)
        IN  /\ served < MaxOps
            /\ served' = served + 1
            /\ op' = [name |-> "post_property", args |-> request, fail |-> fail]
            /\ result' = [response |-> outcome.response,
                          messages |-> outcome.messages,
                          entry_id |-> outcome.entry_id]
            /\ calls' = outcome.calls
            /\ UNCHANGED <<cfg, remote, assets>>

SpecView == InitView /\ [][PostProperty]_vars

---------------------------------------------------------------------------
\* Claims about the view, checked under SpecView

\* a POST with non-empty title, contact name and contact email
CompletePost ==
    /\ op.name = "post_property"
    /\ op.args.method = "POST"
    /\ Truthy(op.args.POST.v.title)
    /\ Truthy(op.args.POST.v.contact_name)
    /\ Truthy(op.args.POST.v.contact_email)

\* the messages of a level the view queued
Queued(level) == SelectSeq(result.messages, LAMBDA msg : msg.level = level)

\* the listing was handed to the publisher of the integration module
HandedToPublisher ==
    \E i \in 1..Len(calls) :
        calls[i].api \in {"cf.submit_property_to_contentful",
                          "cf.sync_property_to_contentful",
                          "cma.spaces.find"}

\* C16: on a POST with non-empty title, contact name and contact email the
\* view hands the listing to the Sync Publisher; if an entry id comes back
\* the notifier is invoked once and the user gets the success message and a
\* redirect to home; if the publish fails the notifier is not invoked and an
\* error message is shown.
C16_PostPublishesThenNotifies ==
    CompletePost =>
        /\ result.response # Raise
        /\ HandedToPublisher
        /\ Truthy(result.entry_id) =>
               /\ Len(CallsTo("send_mail")) = 1
               /\ Len(Queued("success")) = 1
               /\ result.response = [kind |-> "redirect", to |-> "home"]
        /\ ~Truthy(result.entry_id) =>
               /\ Len(CallsTo("send_mail")) = 0
               /\ Len(Queued("error")) = 1


---------------------------------------------------------------------------
\* Property.save of core/models.py
\*
\* Under SpecSave result is the Property instance as its caller holds it,
\* calls are the writes the last save issued to the database and served
\* counts the saves.  The symbols of a title are ASCII.

\* django.utils.text.slugify(value): lower case, every symbol that is not a
\* letter, a digit, an underscore, a hyphen or white space dropped, each run
\* of hyphens and white space turned into one hyphen, hyphens and
\* underscores stripped from both ends
slugify(value) ==
    LET lower == Lower(value)
        Gap(c) == c \in Whitespace \cup {"-"}
        Word(c) == \/ \E i \in 1..Len(LowerCase) : LowerCase[i] = c
                   \/ \E i \in 1..Len(DigitSymbols) : DigitSymbols[i] = c
                   \/ c = "_"
        kept == SelectSeq(lower, LAMBDA c : Word(c) \/ Gap(c))
        Squeezed[i \in 0..Len(kept)] ==
            IF i = 0 THEN << >>
            ELSE IF ~Gap(kept[i]) THEN Append(Squeezed[i - 1], kept[i])
            ELSE IF i > 1 /\ Gap(kept[i - 1]) THEN Squeezed[i - 1]
            ELSE Append(Squeezed[i - 1], "-")
        joined == Squeezed[Len(kept)]
        inner == {i \in 1..Len(joined) : joined[i] \notin {"-", "_"}}
    IN  IF inner = {} THEN << >>
        ELSE SubSeq(joined,
                    CHOOSE i \in inner : \A j \in inner : i <= j,
                    CHOOSE i \in inner : \A j \in inner : j <= i)

\* self.save(): the instance as save leaves it and the writes it issued;
\* super().save() inserts an instance that has no key yet, and the database
\* assigns the key fresh_pk
save(self, fresh_pk) ==
    LET new == <<"n", "e", "w">>
        Tagged(instance, key) ==
            Str(slugify(instance.v.title.v) \o <<"-">> \o PyStr(key).v)
        named == IF ~Truthy(self.v.slug)
                 THEN [self EXCEPT
                          !.v.slug = Tagged(self, PyOr(self.v.pk, Str(new)))]
                 ELSE self
        stored == IF named.v.pk = None
                  THEN [named EXCEPT !.v.pk = Num(fresh_pk)]
                  ELSE named
        renamed == [stored EXCEPT !.v.slug = Tagged(stored, stored.v.pk)]
    IN  IF Contains(stored.v.slug.v, new)
        THEN [self |-> renamed,
              calls |-> <<Call("Model.save", stored),
                          Call("Model.save", Str(<<"slug">>))>>]
        ELSE [self |-> stored, calls |-> <<Call("Model.save", stored)>>]

\* instances a caller may build: never saved, with or without a slug
PropertySamples ==
    {Obj([pk |-> None, title |-> Str(f.title), slug |-> Str(f.slug)]) :
       f \in [title : {<< >>,
                       <<"L", "a", "k", "e", " ", "V", "i", "l", "l", "a">>,
                       <<"S", "e", "a", " ", "-", " ", "V", "i", "e", "w", "!">>,
                       <<"N", "e", "w", " ", "T", "o", "w", "n">>,
                       <<"_", "2", " ", "B", "H", "K", " ">>},
              slug : {<< >>,
                      <<"l", "a", "k", "e">>,
                      <<"n", "e", "w", "-", "t", "o", "w", "n">>,
                      <<"r", "e", "n", "e", "w", "e", "d">>}]}

InitSave ==
    /\ cfg = [space |-> EmptyStr, read |-> EmptyStr, cma |-> EmptyStr]
    /\ remote = << >>
    /\ assets = << >>
    /\ op = [name |-> "init"]
    /\ result \in PropertySamples
    /\ calls = << >>
    /\ served = 0

\* the caller gives the instance another title
SetTitle ==
    \E p \in PropertySamples :
        /\ p.v.title # result.v.title
        /\ op' = [name |-> "set_title", self |-> result]
        /\ result' = [result EXCEPT !.v.title = p.v.title]
        /\ UNCHANGED <<cfg, remote, assets, calls, served>>

\* the caller saves the instance
SaveProperty ==
    \E fresh_pk \in 1..MaxCalls :
        LET saved == save(result, fresh_pk)
        IN  /\ served < MaxCalls
            /\ served' = served + 1
            /\ op' = [name |-> "save", self |-> result]
            /\ result' = saved.self
            /\ calls' = saved.calls
            /\ UNCHANGED <<cfg, remote, assets>>

SpecSave == InitSave /\ [][SetTitle \/ SaveProperty]_vars

---------------------------------------------------------------------------
\* Claims about Property.save, checked under SpecSave

\* slugify(title)-<pk> of an instance
GeneratedSlug(instance) ==
    Str(slugify(instance.v.title.v) \o <<"-">> \o PyStr(instance.v.pk).v)

\* C21: a save generates a slug only when the slug of the instance is
\* empty, and then leaves the slug slugify(title)-<pk>; a non-empty slug is
\* the same after the save as before it, whatever the title has become.
C21_SaveKeepsNonEmptySlug ==
    [][(op'.name = "save") =>
           /\ Truthy(result.v.slug) => result'.v.slug = result.v.slug
           /\ ~Truthy(result.v.slug) => result'.v.slug = GeneratedSlug(result')]_vars

====
